---- MODULE Spec2Model ----
(***************************************************************************)
(* Verification model of the alx-backend-python coursework repository.     *)
(*                                                                         *)
(* Part 1 (python-generators-0x00): the streaming generators stream_users, *)
(* stream_users_in_batches, lazy_paginate / paginate_users,                *)
(* stream_user_ages and the consumer average_age, run against a model of   *)
(* the MySQL driver (connect, execute, fetch, close).                      *)
(*                                                                         *)
(* Part 2 (python-context-async-perations-0x02/3-concurrent.py): the two   *)
(* aiosqlite queries run by asyncio.gather in fetch_concurrently.          *)
(*                                                                         *)
(* Part 3 (0x03-Unittests_and_integration_tests): the memoize decorator    *)
(* and GithubOrgClient that test_utils.py and test_client.py exercise.     *)
(*                                                                         *)
(* Part 4 (messaging_app/chats and Django-Middleware-0x03/chats): the      *)
(* Django REST Framework view sets for users, conversations and messages,  *)
(* with their permission classes and serializers.  A request is one step:  *)
(* permission checks, object lookup, validation, the change and the        *)
(* response.                                                               *)
(*                                                                         *)
(* Part 5 (python-decorators-0x01/4-cache_query.py): the cache_query       *)
(* decorator with its cache file.                                          *)
(*                                                                         *)
(* Part 6 (python-context-async-perations-0x02): the context managers      *)
(* DatabaseConnection and ExecuteQuery around a with-block.                *)
(*                                                                         *)
(* Each part has its own specification (SpecGen, SpecAsync, SpecMemo,      *)
(* SpecClient, SpecConv, SpecMsg, SpecUsers, SpecCache, SpecCtx); the      *)
(* variables of the other parts stay at their idle value.                  *)
(***************************************************************************)
EXTENDS Integers, Sequences, FiniteSets, TLC

VARIABLES
    table,      \* user_data: sequence of stored rows [user_id, age (cents)]
    fn,         \* the function under execution
    size,       \* batch_size / page_size argument
    pc,         \* position of the running frame
    conn,       \* connection held by the frame: none / open / lost / closed
    cursor,     \* cursor held by the frame: none / open / closed
    result,     \* result set bound to the cursor by execute
    rpos,       \* rows of result already fetched
    out,        \* items delivered to the consumer so far (yield order)
    offset,     \* lazy_paginate: local variable offset
    page,       \* lazy_paginate: value returned by the last paginate_users
    calls,      \* arguments of every paginate_users call, in order
    fetches,    \* length of every chunk fetched (fetchmany / paginate_users)
    opened,     \* number of connections opened so far
    live,       \* number of connections open right now
    errored,    \* a driver Error was raised and caught
    closed,     \* the consumer closed the generator before exhaustion
    raised,     \* exception that escaped to the caller ("none" if none)
    total_age,  \* average_age: running sum, in cents
    count,      \* average_age: running count
    avg,        \* average_age: printed average: num (cents) over den, once set
    bpc,        \* batch_processing: position of its frame
    bidx,       \* batch_processing: users of the current batch already looked at
    users,      \* batch_processing: the users it yielded so far
    \* 3-concurrent.py
    seeded,     \* number of times init_db has run against users.db
    task,       \* the two coroutines wrapped by gather: pc, conn, cursor, result
    mainpc,     \* position of fetch_concurrently
    gathered,   \* value of the await asyncio.gather(...) expression
    mainexc,    \* exception that escaped fetch_concurrently ("none" if none)
    \* utils.memoize (TestMemoize)
    memo,       \* per object: the attribute memoize stores the value in
    computed,   \* per object: the values a_method returned, call by call
    returned,   \* per object: the values the property accesses returned
    \* client.GithubOrgClient
    orgName,    \* per client: the organization it was built for
    orgMemo,    \* per client: memoized org payload
    reposMemo,  \* per client: memoized repos payload
    requests,   \* per client: the URLs requested through get_json, in order
    orgReads,   \* per client: number of reads of the org property
    reposCalls, \* per client: number of public_repos calls made
    lastRepos,  \* per client: the list the last public_repos call returned
    licensed,   \* the last has_license call: arguments and outcome
    \* chats
    app,        \* the project whose chats application serves the requests
    profiles,   \* per user: whether the User row exists, and its first_name
    convs,      \* per conversation id: "none" (never created), "live", "gone"
    parts,      \* per conversation id: Conversation.participants
    msgs,       \* Message rows by message id: conversation, sender, body
    resp,       \* the last request and the response it got
    \* 4-cache_query.py
    clock,      \* time.time(), in seconds
    query_cache, \* the module's dict: query -> (timestamp, result)
    cache_file, \* query_cache.json
    wcall,      \* the last call of the wrapped function and how it ended
    \* 0-databaseconnection.py, 1-execute.py
    cm,         \* the context manager class in use
    cmpc,       \* position of the with statement
    cmconn,     \* self.conn: none / open / closed
    cmcursor,   \* self.cursor (ExecuteQuery): none / open / closed
    cmops,      \* calls made on the connection and cursor, in order
    cmexc,      \* exception in flight, "none" if none
    cmdb,       \* users.db: committed writes, and writes of the open transaction
    cmblocks    \* with-blocks finished so far

genVars == <<table, fn, size, pc, conn, cursor, result, rpos, out, offset, page,
             calls, fetches, opened, live, errored, closed, raised, total_age, count, avg,
             bpc, bidx, users>>

\* The frame of batch_processing, which runs on top of stream_users_in_batches.
batchProcessingVars == <<bpc, bidx, users>>

asyncVars == <<seeded, task, mainpc, gathered, mainexc>>

memoVars == <<memo, computed, returned>>

clientVars == <<orgName, orgMemo, reposMemo, requests, orgReads, reposCalls, lastRepos,
                licensed>>

chatVars == <<app, profiles, convs, parts, msgs, resp>>

cacheVars == <<clock, query_cache, cache_file, wcall>>

ctxVars == <<cm, cmpc, cmconn, cmcursor, cmops, cmexc, cmdb, cmblocks>>

vars == <<genVars, asyncVars, memoVars, clientVars, chatVars, cacheVars, ctxVars>>

\* What a step of one script leaves alone: the state of the other scripts.
notGenVars == <<asyncVars, memoVars, clientVars, chatVars, cacheVars, ctxVars>>
notAsyncVars == <<genVars, memoVars, clientVars, chatVars, cacheVars, ctxVars>>
notMemoVars == <<genVars, asyncVars, clientVars, chatVars, cacheVars, ctxVars>>
notClientVars == <<genVars, asyncVars, memoVars, chatVars, cacheVars, ctxVars>>
notChatVars == <<genVars, asyncVars, memoVars, clientVars, cacheVars, ctxVars>>
notCacheVars == <<genVars, asyncVars, memoVars, clientVars, chatVars, ctxVars>>
notCtxVars == <<genVars, asyncVars, memoVars, clientVars, chatVars, cacheVars>>

(***************************************************************************)
(* Bounds of the model.                                                    *)
(***************************************************************************)
MaxRows == 4
MaxSize == 2
MaxSeedRuns == 2
MaxAccesses == 4
MaxCalls == 2
MaxMsgs == 1
MaxClock == 11
MaxBlocks == 3
MaxWrites == 2

\* Stored ages, in hundredths (the column is DECIMAL(5,2)).
AgeVals == {2500, 4500, 2575}

Min(a, b) == IF a <= b THEN a ELSE b

(***************************************************************************)
(* Python values.  A number carries its Python type; cents is its value    *)
(* in hundredths.                                                          *)
(***************************************************************************)
PyInt(n) == [type |-> "int", cents |-> n * 100]
PyDecimal(c) == [type |-> "Decimal", cents |-> c]

\* The driver's conversion of the age column (DECIMAL(5,2) NOT NULL) to Python.
AgeToPython(c) == PyDecimal(c)

\* int(x): truncation toward zero.
IntOf(v) ==
    IF v.cents >= 0 THEN PyInt(v.cents \div 100) ELSE PyInt(-((-v.cents) \div 100))

\* float + x is defined for int and float operands only; Decimal raises TypeError.
FloatAddRaises(v) == v.type \notin {"int", "float"}

(***************************************************************************)
(* The table and the queries.                                              *)
(***************************************************************************)
Tables ==
    UNION {[1..n -> AgeVals] : n \in 0..MaxRows}

\* Row i of a table whose ages are given by the sequence t.
RowOf(t, i) == [user_id |-> i, age |-> AgeToPython(t[i])]

\* SELECT * FROM user_data
SelectAll(t) == [i \in 1..Len(t) |-> RowOf(t, i)]

\* SELECT * FROM user_data LIMIT limit OFFSET off
SelectLimitOffset(t, limit, off) ==
    SubSeq(SelectAll(t), off + 1, Min(off + limit, Len(t)))

\* The dict built from a row: the columns copied, age converted with int().
ToUserDict(row) == [user_id |-> row.user_id, age |-> IntOf(row.age)]

ConvertRows(rows) == [i \in 1..Len(rows) |-> ToUserDict(rows[i])]

\* cursor.fetchmany(n): the next n rows of the result set, fewer at its end.
FetchMany(rows, pos, n) == SubSeq(rows, pos + 1, Min(pos + n, Len(rows)))

\* Mutant of IsEmptyChunk: "if batch is None", which no fetch result satisfies.
MutIsEmptyChunkNever(chunk) == FALSE

\* "if not batch" / "if not page"
IsEmptyChunk(chunk) == Len(chunk) = 0

\* Mutants of NextOffset: the offset advanced by one (a page number, not a row
\* offset), and by the number of rows the page returned.
MutNextOffsetByOne(off, page_size, pg) == off + 1
MutNextOffsetByRows(off, page_size, pg) == off + Len(pg)

\* lazy_paginate: offset += page_size
NextOffset(off, page_size, pg) == off + page_size

CursorGenerators == {"stream_users", "stream_users_in_batches", "stream_user_ages", "average_age",
                     "batch_processing"}
RowGenerators == {"stream_users", "stream_user_ages", "average_age"}
Functions == CursorGenerators \cup {"lazy_paginate"}

\* The asynchronous script is not running.
AsyncIdle ==
    /\ seeded = 0
    /\ task = <<>>
    /\ mainpc = "idle"
    /\ gathered = <<>>
    /\ mainexc = "none"

\* No memoized object exists.
MemoIdle ==
    /\ memo = <<>>
    /\ computed = <<>>
    /\ returned = <<>>

\* No GithubOrgClient exists.
ClientIdle ==
    /\ orgName = <<>>
    /\ orgMemo = <<>>
    /\ reposMemo = <<>>
    /\ requests = <<>>
    /\ orgReads = <<>>
    /\ reposCalls = <<>>
    /\ lastRepos = <<>>
    /\ licensed = <<>>

\* The response slot before any request was served.
NoResp ==
    [act |-> "none", user |-> 0, target |-> 0, conv |-> 0, msg |-> 0, status |-> 0,
     shown |-> {}, denied |-> "none", warned |-> {}]

\* No chats application is serving.
ChatIdle ==
    /\ app = "none"
    /\ profiles = <<>>
    /\ convs = <<>>
    /\ parts = <<>>
    /\ msgs = <<>>
    /\ resp = NoResp

\* The slot of the last wrapped call before any call was made.
NoCall ==
    [query |-> "", at |-> 0, hit |-> FALSE, invoked |-> FALSE, raised |-> "none",
     returned |-> [seq |-> "none", items |-> <<>>]]

\* 4-cache_query.py is not loaded.
CacheIdle ==
    /\ clock = 0
    /\ query_cache = <<>>
    /\ cache_file = [state |-> "missing", data |-> <<>>]
    /\ wcall = NoCall

\* No with statement is running.
CtxIdle ==
    /\ cm = "none"
    /\ cmpc = "idle"
    /\ cmconn = "none"
    /\ cmcursor = "none"
    /\ cmops = <<>>
    /\ cmexc = "none"
    /\ cmdb = [committed |-> 0, pending |-> 0]
    /\ cmblocks = 0

\* The generator scripts are not running.
GenIdle ==
    /\ table = <<>>
    /\ fn = "none"
    /\ size = 1
    /\ pc = "idle"
    /\ conn = "none"
    /\ cursor = "none"
    /\ result = <<>>
    /\ rpos = 0
    /\ out = <<>>
    /\ offset = 0
    /\ page = <<>>
    /\ calls = <<>>
    /\ fetches = <<>>
    /\ opened = 0
    /\ live = 0
    /\ errored = FALSE
    /\ closed = FALSE
    /\ raised = "none"
    /\ total_age = 0
    /\ count = 0
    /\ avg = [set |-> FALSE, num |-> 0, den |-> 1]
    /\ bpc = "idle"
    /\ bidx = 0
    /\ users = <<>>

InitGen ==
    /\ AsyncIdle
    /\ MemoIdle
    /\ ClientIdle
    /\ ChatIdle
    /\ CacheIdle
    /\ CtxIdle
    /\ table \in Tables
    /\ fn \in Functions
    /\ size \in 1..MaxSize
    /\ (fn \in RowGenerators => size = 1)
    /\ pc = "created"
    /\ conn = "none"
    /\ cursor = "none"
    /\ result = <<>>
    /\ rpos = 0
    /\ out = <<>>
    /\ offset = 0
    /\ page = <<>>
    /\ calls = <<>>
    /\ fetches = <<>>
    /\ opened = 0
    /\ live = 0
    /\ errored = FALSE
    /\ closed = FALSE
    /\ raised = "none"
    /\ total_age = 0
    /\ count = 0
    /\ avg = [set |-> FALSE, num |-> 0, den |-> 1]
    /\ bpc = IF fn = "batch_processing" THEN "created" ELSE "idle"
    /\ bidx = 0
    /\ users = <<>>

(***************************************************************************)
(* The consumer of a generator.                                            *)
(***************************************************************************)
\* next(gen): starts the body, or resumes it after a yield.
GenNext ==
    /\ fn # "batch_processing"
    /\ \/ pc = "created"
       \/ pc = "yielded" /\ fn # "average_age"
    /\ pc' = IF fn = "lazy_paginate" THEN "loop"
             ELSE IF pc = "created" THEN "connect" ELSE "fetch"
    /\ UNCHANGED <<table, fn, size, conn, cursor, result, rpos, out, offset, page,
                   calls, fetches, opened, live, errored, closed, raised,
                   total_age, count, avg>>
    /\ UNCHANGED batchProcessingVars
    /\ UNCHANGED notGenVars

\* gen.close() (the consumer breaks out of its loop): GeneratorExit is raised
\* at the yield, so a started cursor generator runs its finally block.
GenClose ==
    /\ fn \notin {"average_age", "batch_processing"}
    /\ pc \in {"created", "yielded"}
    /\ closed' = TRUE
    /\ pc' = IF pc = "yielded" /\ fn \in CursorGenerators THEN "finally" ELSE "done"
    /\ UNCHANGED <<table, fn, size, conn, cursor, result, rpos, out, offset, page,
                   calls, fetches, opened, live, errored, raised,
                   total_age, count, avg>>
    /\ UNCHANGED batchProcessingVars
    /\ UNCHANGED notGenVars

(***************************************************************************)
(* stream_users, stream_users_in_batches, stream_user_ages: one frame      *)
(* holding conn and cursor inside try / except Error / finally.            *)
(***************************************************************************)
\* State of the connection after a driver call failed: still up, or dropped.
ConnAfterError == {"open", "lost"}

\* conn = seed.connect_to_prodev(); None (connect failed) raises Error.
Connect ==
    /\ pc = "connect"
    /\ \/ /\ conn' = "open"
          /\ opened' = opened + 1
          /\ live' = live + 1
          /\ pc' = "execute"
       \/ /\ pc' = "except"
          /\ UNCHANGED <<conn, opened, live>>
    /\ UNCHANGED <<table, fn, size, cursor, result, rpos, out, offset, page,
                   calls, fetches, errored, closed, raised, total_age, count, avg>>
    /\ UNCHANGED batchProcessingVars
    /\ UNCHANGED notGenVars

\* cursor = conn.cursor(dictionary=True); cursor.execute("SELECT ... FROM user_data")
Execute ==
    /\ pc = "execute"
    /\ cursor' = "open"
    /\ \/ /\ result' = SelectAll(table)
          /\ rpos' = 0
          /\ pc' = "fetch"
          /\ UNCHANGED <<conn, live>>
       \/ /\ pc' = "except"
          /\ conn' \in ConnAfterError
          /\ live' = IF conn' = "lost" THEN live - 1 ELSE live
          /\ UNCHANGED <<result, rpos>>
    /\ UNCHANGED <<table, fn, size, out, offset, page, calls, fetches, opened,
                   errored, closed, raised, total_age, count, avg>>
    /\ UNCHANGED batchProcessingVars
    /\ UNCHANGED notGenVars

\* What "for row in cursor: yield ..." delivers for one row.
YieldOfRow(f, row) == IF f = "stream_users" THEN ToUserDict(row) ELSE row.age

\* for row in cursor: yield {...}
FetchRow ==
    /\ pc = "fetch"
    /\ fn \in RowGenerators
    /\ \/ /\ rpos < Len(result)
          /\ out' = Append(out, YieldOfRow(fn, result[rpos + 1]))
          /\ rpos' = rpos + 1
          /\ pc' = "yielded"
          /\ UNCHANGED <<conn, live>>
       \/ /\ rpos = Len(result)
          /\ pc' = "finally"
          /\ UNCHANGED <<out, rpos, conn, live>>
       \/ /\ pc' = "except"
          /\ conn' \in ConnAfterError
          /\ live' = IF conn' = "lost" THEN live - 1 ELSE live
          /\ UNCHANGED <<out, rpos>>
    /\ UNCHANGED <<table, fn, size, cursor, result, offset, page, calls, fetches,
                   opened, errored, closed, raised, total_age, count, avg>>
    /\ UNCHANGED batchProcessingVars
    /\ UNCHANGED notGenVars

\* Mutant of BatchOf: one row more than asked for.
MutBatchOfOneMore(rows, pos, batch_size) == FetchMany(rows, pos, batch_size + 1)

\* batch = cursor.fetchmany(batch_size)
BatchOf(rows, pos, batch_size) == FetchMany(rows, pos, batch_size)

\* while True: batch = cursor.fetchmany(batch_size); if not batch: break; yield [...]
FetchBatch ==
    /\ pc = "fetch"
    /\ fn \in {"stream_users_in_batches", "batch_processing"}
    /\ \/ LET batch == BatchOf(result, rpos, size) IN
          /\ fetches' = Append(fetches, Len(batch))
          /\ rpos' = rpos + Len(batch)
          /\ IF IsEmptyChunk(batch)
             THEN pc' = "finally" /\ out' = out
             ELSE pc' = "yielded" /\ out' = Append(out, ConvertRows(batch))
          /\ UNCHANGED <<conn, live>>
       \/ /\ pc' = "except"
          /\ conn' \in ConnAfterError
          /\ live' = IF conn' = "lost" THEN live - 1 ELSE live
          /\ UNCHANGED <<out, rpos, fetches>>
    /\ UNCHANGED <<table, fn, size, cursor, result, offset, page, calls,
                   opened, errored, closed, raised, total_age, count, avg>>
    /\ UNCHANGED batchProcessingVars
    /\ UNCHANGED notGenVars

\* Mutant of HandlerCatches: the clause names an unrelated exception class.
MutHandlerCatchesOther(exc) == exc = "ValueError"

\* "except Error": the clause handles the driver's Error class.
HandlerCatches(exc) == exc = "Error"

\* except Error as e: print(...)   (an exception no clause handles propagates
\* to the caller once the finally block has run)
Except ==
    /\ pc = "except"
    /\ errored' = TRUE
    /\ raised' = IF HandlerCatches("Error") THEN raised ELSE "Error"
    /\ pc' = "finally"
    /\ UNCHANGED <<table, fn, size, conn, cursor, result, rpos, out, offset, page,
                   calls, fetches, opened, live, closed, total_age, count, avg>>
    /\ UNCHANGED batchProcessingVars
    /\ UNCHANGED notGenVars

\* if cursor: cursor.close()
CursorAfterFinally(c) == IF c # "none" THEN "closed" ELSE c

\* Mutant of ConnAfterFinally: the connection is never closed.
MutConnAfterFinallyLeak(c) == c

\* if conn and conn.is_connected(): conn.close()
ConnAfterFinally(c) == IF c = "open" THEN "closed" ELSE c

\* finally: close the cursor and the connection.
Finally ==
    /\ pc = "finally"
    /\ cursor' = CursorAfterFinally(cursor)
    /\ conn' = ConnAfterFinally(conn)
    /\ live' = IF conn = "open" /\ conn' = "closed" THEN live - 1 ELSE live
    /\ pc' = "done"
    /\ UNCHANGED <<table, fn, size, result, rpos, out, offset, page, calls, fetches,
                   opened, errored, closed, raised, total_age, count, avg>>
    /\ UNCHANGED batchProcessingVars
    /\ UNCHANGED notGenVars

(***************************************************************************)
(* lazy_paginate and paginate_users.                                       *)
(***************************************************************************)
\* page = paginate_users(page_size, offset)
LazyPaginateCall ==
    /\ pc = "loop"
    /\ calls' = Append(calls, <<size, offset>>)
    /\ pc' = "p_connect"
    /\ UNCHANGED <<table, fn, size, conn, cursor, result, rpos, out, offset, page,
                   fetches, opened, live, errored, closed, raised,
                   total_age, count, avg>>
    /\ UNCHANGED batchProcessingVars
    /\ UNCHANGED notGenVars

\* paginate_users: conn = seed.connect_to_prodev(); None raises Error.
PaginateConnect ==
    /\ pc = "p_connect"
    /\ cursor' = "none"
    /\ \/ /\ conn' = "open"
          /\ opened' = opened + 1
          /\ live' = live + 1
          /\ pc' = "p_execute"
       \/ /\ conn' = "none"
          /\ pc' = "p_except"
          /\ UNCHANGED <<opened, live>>
    /\ UNCHANGED <<table, fn, size, result, rpos, out, offset, page,
                   calls, fetches, errored, closed, raised, total_age, count, avg>>
    /\ UNCHANGED batchProcessingVars
    /\ UNCHANGED notGenVars

\* paginate_users: cursor.execute("SELECT * FROM user_data LIMIT %s OFFSET %s", ...)
PaginateExecute ==
    /\ pc = "p_execute"
    /\ cursor' = "open"
    /\ \/ /\ result' = SelectLimitOffset(table, calls[Len(calls)][1], calls[Len(calls)][2])
          /\ rpos' = 0
          /\ pc' = "p_fetchall"
          /\ UNCHANGED <<conn, live>>
       \/ /\ pc' = "p_except"
          /\ conn' \in ConnAfterError
          /\ live' = IF conn' = "lost" THEN live - 1 ELSE live
          /\ UNCHANGED <<result, rpos>>
    /\ UNCHANGED <<table, fn, size, out, offset, page, calls, fetches, opened,
                   errored, closed, raised, total_age, count, avg>>
    /\ UNCHANGED batchProcessingVars
    /\ UNCHANGED notGenVars

\* paginate_users: rows = cursor.fetchall(); users = [...]; return users
PaginateFetchall ==
    /\ pc = "p_fetchall"
    /\ \/ /\ page' = ConvertRows(result)
          /\ rpos' = Len(result)
          /\ pc' = "p_finally"
          /\ UNCHANGED <<conn, live>>
       \/ /\ pc' = "p_except"
          /\ conn' \in ConnAfterError
          /\ live' = IF conn' = "lost" THEN live - 1 ELSE live
          /\ UNCHANGED <<page, rpos>>
    /\ UNCHANGED <<table, fn, size, cursor, result, out, offset, calls, fetches,
                   opened, errored, closed, raised, total_age, count, avg>>
    /\ UNCHANGED batchProcessingVars
    /\ UNCHANGED notGenVars

\* paginate_users: except Error as e: print(...); return []
PaginateExcept ==
    /\ pc = "p_except"
    /\ errored' = TRUE
    /\ IF HandlerCatches("Error")
       THEN page' = <<>> /\ UNCHANGED raised
       ELSE raised' = "Error" /\ UNCHANGED page
    /\ pc' = "p_finally"
    /\ UNCHANGED <<table, fn, size, conn, cursor, result, rpos, out, offset,
                   calls, fetches, opened, live, closed, total_age, count, avg>>
    /\ UNCHANGED batchProcessingVars
    /\ UNCHANGED notGenVars

\* paginate_users: finally: close cursor and connection; the page is returned.
PaginateFinally ==
    /\ pc = "p_finally"
    /\ cursor' = CursorAfterFinally(cursor)
    /\ conn' = ConnAfterFinally(conn)
    /\ live' = IF conn = "open" /\ conn' = "closed" THEN live - 1 ELSE live
    /\ fetches' = IF raised = "none" THEN Append(fetches, Len(page)) ELSE fetches
    /\ pc' = IF raised = "none" THEN "page" ELSE "done"
    /\ UNCHANGED <<table, fn, size, result, rpos, out, offset, page, calls,
                   opened, errored, closed, raised, total_age, count, avg>>
    /\ UNCHANGED batchProcessingVars
    /\ UNCHANGED notGenVars

\* lazy_paginate: if not page: break; offset += page_size; yield page
LazyPaginateStep ==
    /\ pc = "page"
    /\ IF IsEmptyChunk(page)
       THEN /\ pc' = "done"
            /\ UNCHANGED <<offset, out>>
       ELSE /\ offset' = NextOffset(offset, size, page)
            /\ out' = Append(out, page)
            /\ pc' = "yielded"
    /\ UNCHANGED <<table, fn, size, conn, cursor, result, rpos, page, calls, fetches,
                   opened, live, errored, closed, raised, total_age, count, avg>>
    /\ UNCHANGED batchProcessingVars
    /\ UNCHANGED notGenVars

(***************************************************************************)
(* average_age: the consumer of stream_user_ages.                          *)
(***************************************************************************)
\* for age in stream_user_ages(): total_age += age; count += 1
\* total_age is a float (0.0); an operand float cannot add raises TypeError,
\* which unwinds average_age and finalises the suspended generator.
AverageAgeAdd ==
    /\ fn = "average_age"
    /\ pc = "yielded"
    /\ LET age == out[Len(out)] IN
       IF FloatAddRaises(age)
       THEN /\ raised' = "TypeError"
            /\ pc' = "finally"
            /\ UNCHANGED <<total_age, count>>
       ELSE /\ total_age' = total_age + age.cents
            /\ count' = count + 1
            /\ pc' = "fetch"
            /\ UNCHANGED raised
    /\ UNCHANGED <<table, fn, size, conn, cursor, result, rpos, out, offset, page,
                   calls, fetches, opened, live, errored, closed, avg>>
    /\ UNCHANGED batchProcessingVars
    /\ UNCHANGED notGenVars

\* if count == 0: avg = 0 else: avg = total_age / count; print(avg)
AverageOf(total, n) ==
    IF n = 0 THEN [set |-> TRUE, num |-> 0, den |-> 1]
    ELSE [set |-> TRUE, num |-> total, den |-> n]

AverageAgeFinish ==
    /\ fn = "average_age"
    /\ pc = "done"
    /\ raised = "none"
    /\ avg' = AverageOf(total_age, count)
    /\ pc' = "returned"
    /\ UNCHANGED <<table, fn, size, conn, cursor, result, rpos, out, offset, page,
                   calls, fetches, opened, live, errored, closed, raised,
                   total_age, count>>
    /\ UNCHANGED batchProcessingVars
    /\ UNCHANGED notGenVars

(***************************************************************************)
(* batch_processing: a generator over stream_users_in_batches.             *)
(***************************************************************************)
\* if user['age'] > 25
IsOver25(user) == user.age.cents > PyInt(25).cents

\* Index of the next user of the batch, after the first k, that passes the
\* filter; 0 when none is left.
NextOver25(batch, k) ==
    IF \E j \in (k + 1)..Len(batch) : IsOver25(batch[j])
    THEN CHOOSE j \in (k + 1)..Len(batch) :
             /\ IsOver25(batch[j])
             /\ \A i \in (k + 1)..(j - 1) : ~IsOver25(batch[i])
    ELSE 0

\* Mutant of BatchLoopContinues: the first batch is taken with one next() and
\* the function returns after it.
MutBatchLoopFirstOnly == FALSE

\* "for batch in stream_users_in_batches(batch_size)": after a batch the loop
\* asks the inner generator for the next one.
BatchLoopContinues == TRUE

\* next() on batch_processing: starts the body (the for statement creates the
\* inner generator and asks for its first batch) or resumes it after a yield.
BatchProcessingNext ==
    /\ fn = "batch_processing"
    /\ bpc \in {"created", "yielded"}
    /\ bpc' = "running"
    /\ pc' = IF bpc = "created" THEN "connect" ELSE pc
    /\ UNCHANGED <<table, fn, size, conn, cursor, result, rpos, out, offset, page,
                   calls, fetches, opened, live, errored, closed, raised,
                   total_age, count, avg, bidx, users>>
    /\ UNCHANGED notGenVars

\* for user in batch: if user['age'] > 25: yield user; when the batch is used
\* up the outer loop resumes the inner generator.
BatchProcessingStep ==
    /\ fn = "batch_processing"
    /\ bpc = "running"
    /\ pc = "yielded"
    /\ LET batch == out[Len(out)]
           j == NextOver25(batch, bidx)
       IN IF j # 0
          THEN /\ users' = Append(users, batch[j])
               /\ bidx' = j
               /\ bpc' = "yielded"
               /\ pc' = pc
          ELSE /\ bidx' = 0
               /\ users' = users
               /\ IF BatchLoopContinues
                  THEN bpc' = bpc /\ pc' = "fetch"
                  ELSE bpc' = "done" /\ pc' = "finally"
    /\ UNCHANGED <<table, fn, size, conn, cursor, result, rpos, out, offset, page,
                   calls, fetches, opened, live, errored, closed, raised,
                   total_age, count, avg>>
    /\ UNCHANGED notGenVars

\* The inner generator is exhausted (or ended by a caught driver error): the
\* for loop ends and batch_processing returns.
BatchProcessingEnd ==
    /\ fn = "batch_processing"
    /\ bpc = "running"
    /\ pc = "done"
    /\ bpc' = "done"
    /\ UNCHANGED <<table, fn, size, pc, conn, cursor, result, rpos, out, offset, page,
                   calls, fetches, opened, live, errored, closed, raised,
                   total_age, count, avg, bidx, users>>
    /\ UNCHANGED notGenVars

\* close() on batch_processing: GeneratorExit at its yield; dropping its frame
\* finalises the suspended inner generator, which runs its finally block.
BatchProcessingClose ==
    /\ fn = "batch_processing"
    /\ bpc \in {"created", "yielded"}
    /\ closed' = TRUE
    /\ bpc' = "done"
    /\ pc' = IF bpc = "yielded" THEN "finally" ELSE "done"
    /\ UNCHANGED <<table, fn, size, conn, cursor, result, rpos, out, offset, page,
                   calls, fetches, opened, live, errored, raised,
                   total_age, count, avg, bidx, users>>
    /\ UNCHANGED notGenVars

NextGen ==
    \/ GenNext
    \/ GenClose
    \/ Connect
    \/ Execute
    \/ FetchRow
    \/ FetchBatch
    \/ Except
    \/ Finally
    \/ LazyPaginateCall
    \/ PaginateConnect
    \/ PaginateExecute
    \/ PaginateFetchall
    \/ PaginateExcept
    \/ PaginateFinally
    \/ LazyPaginateStep
    \/ AverageAgeAdd
    \/ AverageAgeFinish
    \/ BatchProcessingNext
    \/ BatchProcessingStep
    \/ BatchProcessingEnd
    \/ BatchProcessingClose

SpecGen == InitGen /\ [][NextGen]_vars

\* The consumer keeps driving the generator (a for loop over it) and every
\* driver call returns: the synchronous program always takes its next step.
FairSpecGen == SpecGen /\ WF_vars(NextGen)

(***************************************************************************)
(* Properties of the streaming generators.                                 *)
(***************************************************************************)
RECURSIVE Flatten(_)
Flatten(ss) == IF Len(ss) = 0 THEN <<>> ELSE Head(ss) \o Flatten(Tail(ss))

IsPrefix(a, b) == Len(a) <= Len(b) /\ SubSeq(b, 1, Len(a)) = a

ChunkedGenerators == {"stream_users_in_batches", "lazy_paginate"}
DictGenerators == {"stream_users"} \cup ChunkedGenerators

\* The records delivered so far, chunk boundaries removed.
Delivered == IF fn \in ChunkedGenerators THEN Flatten(out) ELSE out

\* What one SELECT * over the table, streamed by stream_users, delivers.
AllUsers == ConvertRows(SelectAll(table))

\* The run ended by exhaustion: no driver error, no early close.
Exhausted == pc = "done" /\ ~errored /\ ~closed /\ raised = "none"

\* C1: with the table unmodified and no driver error, the records of
\* stream_users(), the concatenated batches of stream_users_in_batches(n) and
\* the concatenated pages of lazy_paginate(n) are each exactly the rows of one
\* SELECT * over the table, in table order and in the same number, every age
\* an int.
C1_SameRecordsAsSingleQuery ==
    (fn \in DictGenerators /\ Exhausted) =>
        /\ Delivered = AllUsers
        /\ Len(Delivered) = Len(table)
        /\ \A i \in 1..Len(Delivered) :
              /\ Delivered[i].user_id = i
              /\ Delivered[i].age.type = "int"
              /\ Delivered[i].age = IntOf(PyDecimal(table[i]))

C1_Witness ==
    /\ fn = "lazy_paginate"
    /\ Exhausted
    /\ size = 2
    /\ Len(table) = 3
    /\ Len(out) = 2
    /\ Delivered[3].age = PyInt(25)
    /\ table[3] = 2575

\* No chunk yielded is empty; only the last fetch of a run can be empty, and
\* the frame is then past its loop; every fetch but an empty one is yielded.
NoEmptyChunkNoFetchAfterEmpty ==
    fn \in ChunkedGenerators =>
        /\ \A i \in 1..Len(out) : Len(out[i]) >= 1
        /\ \A i \in 1..Len(fetches) : fetches[i] = 0 => i = Len(fetches)
        /\ (Len(fetches) > 0 /\ fetches[Len(fetches)] = 0) =>
               pc \in {"page", "finally", "done"}
        /\ Len(fetches) - Len(out) \in {0, 1}

\* C2: a chunked generator (stream_users_in_batches, lazy_paginate) never
\* yields an empty chunk, issues no fetch after an empty one, and eventually
\* terminates.
C2_StopsAtFirstEmptyChunk ==
    /\ []NoEmptyChunkNoFetchAfterEmpty
    /\ (fn \in ChunkedGenerators) ~> (pc = "done")

C2_Witness ==
    /\ fn = "stream_users_in_batches"
    /\ pc = "done"
    /\ ~errored /\ ~closed
    /\ Len(out) = 2
    /\ fetches = <<2, 2, 0>>

\* C3: the k-th paginate_users call of lazy_paginate(page_size) is made with
\* (page_size, (k-1)*page_size); the offset moves by page_size with each
\* yielded page and never otherwise.
C3_OffsetAdvancesByPageSize ==
    fn = "lazy_paginate" =>
        /\ \A k \in 1..Len(calls) : calls[k] = <<size, (k - 1) * size>>
        /\ offset = size * Len(out)
        /\ (pc = "loop" => offset = size * Len(calls))

C3_Witness ==
    /\ fn = "lazy_paginate"
    /\ size = 2
    /\ Len(calls) = 3
    /\ Len(out) = 2
    /\ Len(out[2]) = 1
    /\ pc = "done"
    /\ offset = 4

\* C4: every batch yielded by stream_users_in_batches(batch_size) holds
\* between 1 and batch_size records, and only the last one may hold fewer
\* than batch_size.
C4_BatchSizes ==
    fn = "stream_users_in_batches" =>
        \A i \in 1..Len(out) :
            /\ 1 <= Len(out[i])
            /\ Len(out[i]) <= size
            /\ (i < Len(out) => Len(out[i]) = size)

C4_Witness ==
    /\ fn = "stream_users_in_batches"
    /\ size = 2
    /\ Len(out) = 2
    /\ Len(out[1]) = 2
    /\ Len(out[2]) = 1
    /\ pc = "yielded"

Ended == pc \in {"done", "returned"}
OutsidePaginateUsers == pc \in {"created", "loop", "page", "yielded", "done"}

\* C5: a cursor generator opens at most one connection/cursor pair per run and
\* once it has ended (exhausted, closed by the consumer, or after an error) no
\* connection or cursor is open; lazy_paginate never has two connections open
\* and has none open outside a paginate_users call.

C6_DriverErrorsContained ==
    /\ raised # "Error"
    /\ errored =>
          /\ pc \in {"finally", "p_finally", "page", "done", "returned"}
          /\ (fn \in DictGenerators => IsPrefix(Delivered, AllUsers))
          /\ (fn = "lazy_paginate" /\ pc \in {"p_finally", "page", "done"} => page = <<>>)

C6_Witness ==
    /\ fn = "lazy_paginate"
    /\ errored
    /\ pc = "done"
    /\ Len(out) = 1
    /\ Len(table) = 4
    /\ raised = "none"

RECURSIVE SumCents(_)
SumCents(vs) == IF Len(vs) = 0 THEN 0 ELSE Head(vs).cents + SumCents(Tail(vs))

AverageAgeEnded ==
    fn = "average_age" /\ (pc = "returned" \/ (pc = "done" /\ raised # "none"))

\* C7: average_age ends having printed the arithmetic mean of the streamed
\* ages (0 for no ages), after consuming stream_user_ages once.
C7_AverageIsMean ==
    AverageAgeEnded =>
        /\ raised = "none"
        /\ avg.set
        /\ opened <= 1
        /\ IF Len(out) = 0 THEN avg.num = 0
           ELSE avg.num * Len(out) = SumCents(out) * avg.den

(***************************************************************************)
(* 3-concurrent.py: fetch_concurrently.                                    *)
(***************************************************************************)
\* The rows init_db inserts on each run (name, age); ids are autoincremented
\* and no column but id is unique, so every run adds the five rows again.
SampleUsers ==
    << [name |-> "Alice", age |-> 25], [name |-> "Bob", age |-> 45],
       [name |-> "Charlie", age |-> 30], [name |-> "Diana", age |-> 50],
       [name |-> "Eve", age |-> 35] >>

\* The users table after init_db has run n times.
UsersTable(n) ==
    [i \in 1..(n * Len(SampleUsers)) |->
        [id |-> i,
         name |-> SampleUsers[((i - 1) % Len(SampleUsers)) + 1].name,
         age |-> SampleUsers[((i - 1) % Len(SampleUsers)) + 1].age]]

\* Task 1 is async_fetch_users ('SELECT * FROM users'), task 2 is
\* async_fetch_older_users ('SELECT * FROM users WHERE age > 40').
Matches(i, u) == IF i = 1 THEN TRUE ELSE u.age > 40

RECURSIVE SelectWhere(_, _)
\* The rows that query i selects, in table order.
SelectWhere(rows, i) ==
    IF Len(rows) = 0 THEN <<>>
    ELSE IF Matches(i, Head(rows)) THEN <<Head(rows)>> \o SelectWhere(Tail(rows), i)
    ELSE SelectWhere(Tail(rows), i)

QueryRows(i, n) == SelectWhere(UsersTable(n), i)

Tasks == {1, 2}
Pending == [kind |-> "pending", rows |-> <<>>]
Failure == [kind |-> "exc", rows |-> <<>>]
Rows(rs) == [kind |-> "rows", rows |-> rs]

NewTask == [pc |-> "new", conn |-> "none", cursor |-> "none", result |-> Pending]

InitAsync ==
    /\ GenIdle
    /\ MemoIdle
    /\ ClientIdle
    /\ ChatIdle
    /\ CacheIdle
    /\ CtxIdle
    /\ seeded \in 1..MaxSeedRuns
    /\ task = [i \in Tasks |-> NewTask]
    /\ mainpc = "start"
    /\ gathered = <<>>
    /\ mainexc = "none"

TaskDone(i) == task[i].pc = "done"

\* asyncio.gather(async_fetch_users(), async_fetch_older_users(), ...): both
\* coroutines are wrapped in tasks and scheduled; fetch_concurrently awaits.
GatherStart ==
    /\ mainpc = "start"
    /\ task' = [i \in Tasks |-> [task[i] EXCEPT !.pc = "connect"]]
    /\ mainpc' = "await_gather"
    /\ UNCHANGED <<seeded, gathered, mainexc>>
    /\ UNCHANGED notAsyncVars

\* async with aiosqlite.connect(DB_PATH) as conn
AsyncConnect(i) ==
    /\ task[i].pc = "connect"
    /\ \/ task' = [task EXCEPT ![i].pc = "execute", ![i].conn = "open"]
       \/ task' = [task EXCEPT ![i].pc = "done", ![i].result = Failure]
    /\ UNCHANGED <<seeded, mainpc, gathered, mainexc>>
    /\ UNCHANGED notAsyncVars

\* async with conn.execute('SELECT ...') as cursor
AsyncExecute(i) ==
    /\ task[i].pc = "execute"
    /\ \/ task' = [task EXCEPT ![i].pc = "fetchall", ![i].cursor = "open"]
       \/ task' = [task EXCEPT ![i].pc = "exit_conn", ![i].result = Failure]
    /\ UNCHANGED <<seeded, mainpc, gathered, mainexc>>
    /\ UNCHANGED notAsyncVars

\* return await cursor.fetchall()
AsyncFetchall(i) ==
    /\ task[i].pc = "fetchall"
    /\ \/ task' = [task EXCEPT ![i].pc = "exit_cursor",
                               ![i].result = Rows(QueryRows(i, seeded))]
       \/ task' = [task EXCEPT ![i].pc = "exit_cursor", ![i].result = Failure]
    /\ UNCHANGED <<seeded, mainpc, gathered, mainexc>>
    /\ UNCHANGED notAsyncVars

\* leaving "async with conn.execute(...) as cursor": the cursor is closed
AsyncExitCursor(i) ==
    /\ task[i].pc = "exit_cursor"
    /\ task' = [task EXCEPT ![i].pc = "exit_conn", ![i].cursor = "closed"]
    /\ UNCHANGED <<seeded, mainpc, gathered, mainexc>>
    /\ UNCHANGED notAsyncVars

\* leaving "async with aiosqlite.connect(...) as conn": the connection is
\* closed and the coroutine ends with its return value or its exception
AsyncExitConn(i) ==
    /\ task[i].pc = "exit_conn"
    /\ task' = [task EXCEPT ![i].pc = "done", ![i].conn = "closed"]
    /\ UNCHANGED <<seeded, mainpc, gathered, mainexc>>
    /\ UNCHANGED notAsyncVars

\* Mutant of ReturnExceptions: gather called without return_exceptions.
MutReturnExceptionsOff == FALSE

\* return_exceptions=True
ReturnExceptions == TRUE

\* await asyncio.gather(...): with return_exceptions the awaiter resumes when
\* every task is done and receives results and exceptions alike, in argument
\* order; without it the first exception is raised in the awaiter at once.
GatherWake ==
    /\ mainpc = "await_gather"
    /\ IF ReturnExceptions \/ \A i \in Tasks : task[i].result.kind # "exc"
       THEN /\ \A i \in Tasks : TaskDone(i)
            /\ gathered' = [i \in Tasks |-> task[i].result]
            /\ mainpc' = "print_all"
            /\ UNCHANGED mainexc
       ELSE /\ \E i \in Tasks : TaskDone(i) /\ task[i].result.kind = "exc"
            /\ mainexc' = "OperationalError"
            /\ mainpc' = "raised"
            /\ UNCHANGED gathered
    /\ UNCHANGED <<seeded, task>>
    /\ UNCHANGED notAsyncVars

\* [dict(u) for u in x]: iterating an exception object raises TypeError.
IterationRaises(x) == x.kind = "exc"

\* print("All users:", [dict(u) for u in all_users])
PrintAll ==
    /\ mainpc = "print_all"
    /\ IF IterationRaises(gathered[1])
       THEN mainexc' = "TypeError" /\ mainpc' = "raised"
       ELSE mainpc' = "print_older" /\ UNCHANGED mainexc
    /\ UNCHANGED <<seeded, task, gathered>>
    /\ UNCHANGED notAsyncVars

\* print("Users older than 40:", [dict(u) for u in older_users]); return
PrintOlder ==
    /\ mainpc = "print_older"
    /\ IF IterationRaises(gathered[2])
       THEN mainexc' = "TypeError" /\ mainpc' = "raised"
       ELSE mainpc' = "returned" /\ UNCHANGED mainexc
    /\ UNCHANGED <<seeded, task, gathered>>
    /\ UNCHANGED notAsyncVars

NextAsync ==
    \/ GatherStart
    \/ \E i \in Tasks : AsyncConnect(i)
    \/ \E i \in Tasks : AsyncExecute(i)
    \/ \E i \in Tasks : AsyncFetchall(i)
    \/ \E i \in Tasks : AsyncExitCursor(i)
    \/ \E i \in Tasks : AsyncExitConn(i)
    \/ GatherWake
    \/ PrintAll
    \/ PrintOlder

SpecAsync == InitAsync /\ [][NextAsync]_vars

GatherReturned == mainpc \in {"print_all", "print_older", "returned", "raised"}

\* C8: the two queries are independent tasks: a task that did not fail itself
\* ends with the rows of its own query whatever the other task did, and once
\* gather has returned both tasks have run to their end and each one's outcome
\* (rows, or its failure as a value) is in its slot; a task's failure is never
\* raised out of gather.

C8_TaskFailuresIsolated ==
    /\ \A i \in Tasks :
          (TaskDone(i) /\ task[i].result.kind # "exc") =>
              task[i].result = Rows(QueryRows(i, seeded))
    /\ mainexc # "OperationalError"
    /\ GatherReturned =>
          /\ \A i \in Tasks : TaskDone(i) /\ gathered[i] = task[i].result
          /\ \A i \in Tasks :
                gathered[i].kind = "exc" \/ gathered[i] = Rows(QueryRows(i, seeded))

C8_Witness ==
    /\ GatherReturned
    /\ seeded = 1
    /\ gathered[1].kind = "exc"
    /\ gathered[2].kind = "rows"
    /\ Len(gathered[2].rows) = 2
    /\ gathered[2].rows[1].name = "Bob"
    /\ gathered[2].rows[2].name = "Diana"

(***************************************************************************)
(* utils.memoize, as TestMemoize uses it: a_property is a memoized         *)
(* property of TestClass whose body calls a_method.                        *)
(***************************************************************************)
Objects == {1, 2}

\* What a_method may return on a call (42 in the test).
MethodValues == {41, 42, 43}

Unset == [set |-> FALSE, val |-> 0]
Stored(v) == [set |-> TRUE, val |-> v]

InitMemo ==
    /\ GenIdle
    /\ AsyncIdle
    /\ ClientIdle
    /\ ChatIdle
    /\ CacheIdle
    /\ CtxIdle
    /\ memo = [o \in Objects |-> Unset]
    /\ computed = [o \in Objects |-> <<>>]
    /\ returned = [o \in Objects |-> <<>>]

\* Mutant of MemoHit: the stored value is never found, so every access
\* computes again.
MutMemoHitNever(m) == FALSE

\* memoize: the value is taken from the object's attribute once it is there.
MemoHit(m) == m.set

\* test_obj.a_property: the first access calls a_method and stores its value
\* on the object; every access returns the stored value.
MemoAccess(o) ==
    /\ Len(returned[o]) < MaxAccesses
    /\ \E v \in MethodValues :
          IF MemoHit(memo[o])
          THEN /\ returned' = [returned EXCEPT ![o] = Append(@, memo[o].val)]
               /\ UNCHANGED <<memo, computed>>
          ELSE /\ computed' = [computed EXCEPT ![o] = Append(@, v)]
               /\ memo' = [memo EXCEPT ![o] = Stored(v)]
               /\ returned' = [returned EXCEPT ![o] = Append(@, v)]
    /\ UNCHANGED notMemoVars

NextMemo == \E o \in Objects : MemoAccess(o)

SpecMemo == InitMemo /\ [][NextMemo]_vars

\* C10: after any number (>= 1) of accesses to a memoized property of an
\* object, the underlying method has been called exactly once on that object
\* and every access returned the value of that first call.
C10_ComputedOncePerInstance ==
    \A o \in Objects :
        Len(returned[o]) >= 1 =>
            /\ Len(computed[o]) = 1
            /\ \A k \in 1..Len(returned[o]) : returned[o][k] = computed[o][1]

C10_Witness ==
    /\ Len(returned[1]) = 3
    /\ computed[1] = <<42>>
    /\ computed[2] = <<43>>
    /\ returned[2] = <<43, 43>>

(***************************************************************************)
(* client.GithubOrgClient, as test_client.py exercises it.                 *)
(***************************************************************************)
Clients == {1, 2}
OrgNames == {"google", "abc"}
Licenses == {"none", "apache-2.0", "my_license"}
LicenseKeys == {"apache-2.0", "my_license", "other_license"}

\* The "license" entry of a repository dictionary, as the JSON can carry it:
\* present says the dictionary has the entry, mapping that its value is a
\* dictionary (not null), haskey that this dictionary has a "key" entry.
NoLicense == [present |-> FALSE, mapping |-> FALSE, haskey |-> FALSE, key |-> ""]
LicenseOf(k) == [present |-> TRUE, mapping |-> TRUE, haskey |-> TRUE, key |-> k]
LicenseEntries ==
    {NoLicense}
    \cup {[present |-> TRUE, mapping |-> m, haskey |-> FALSE, key |-> ""] : m \in BOOLEAN}
    \cup {LicenseOf(k) : k \in LicenseKeys}

\* The repository dictionaries has_license is called with.
Repos == {[name |-> <<"repo">>, license |-> l] : l \in LicenseEntries}

\* ORG_URL.format(org=name): "https://api.github.com/orgs/{org}"
OrgUrl(name) == <<"https://api.github.com/orgs/", name>>

\* The repos_url of an organization payload: its URL followed by "/repos".
ReposUrl(name) == OrgUrl(name) \o <<"/repos">>

\* The JSON served for a URL (side_effect of the integration test): the
\* organization payload for the organization URL, the repository list for its
\* repos_url.
OrgPayload(name) == [repos_url |-> ReposUrl(name)]

ReposPayload(name) ==
    << [name |-> <<name, "-a">>, license |-> LicenseOf("apache-2.0")],
       [name |-> <<name, "-b">>, license |-> NoLicense],
       [name |-> <<name, "-c">>, license |-> LicenseOf("my_license")] >>

ServedJson(url) ==
    IF Len(url) = 2 THEN [kind |-> "org", org |-> OrgPayload(url[2]), repos |-> <<>>]
    ELSE [kind |-> "repos", org |-> OrgPayload(url[2]), repos |-> ReposPayload(url[2])]

InitClient ==
    /\ GenIdle
    /\ AsyncIdle
    /\ MemoIdle
    /\ ChatIdle
    /\ CacheIdle
    /\ CtxIdle
    /\ orgName \in [Clients -> OrgNames]
    /\ orgMemo = [c \in Clients |-> [set |-> FALSE, val |-> OrgPayload("")]]
    /\ reposMemo = [c \in Clients |-> [set |-> FALSE, val |-> <<>>]]
    /\ requests = [c \in Clients |-> <<>>]
    /\ orgReads = [c \in Clients |-> 0]
    /\ reposCalls = [c \in Clients |-> 0]
    /\ lastRepos = [c \in Clients |-> <<>>]
    /\ licensed = <<>>

\* Mutant of OrgMemoized: org is a plain property, requested on every read.
MutOrgMemoizedNever(m) == FALSE

\* @memoize on org: the payload is requested on the first read only.
OrgMemoized(m) == m.set

\* @memoize on repos_payload.
ReposMemoized(m) == m.set

\* access_nested_map(repo, ("license", "key")): the value at the path, or
\* KeyError(key) at the first key that is missing or whose container is not a
\* mapping.
AccessNestedMap(repo) ==
    IF ~repo.license.present THEN [raised |-> "KeyError", arg |-> "license", val |-> ""]
    ELSE IF ~repo.license.mapping \/ ~repo.license.haskey
         THEN [raised |-> "KeyError", arg |-> "key", val |-> ""]
         ELSE [raised |-> "none", arg |-> "", val |-> repo.license.key]

\* Mutant of HasLicenseCall: the KeyError of a missing entry is not caught.
MutHasLicenseCallRaises(repo, key) ==
    LET got == AccessNestedMap(repo)
    IN [raised |-> got.raised, result |-> got.raised = "none" /\ got.val = key]

\* has_license(repo, license_key): compares the nested licence key with
\* license_key; a KeyError of the lookup is caught and gives False.
HasLicenseCall(repo, key) ==
    LET got == AccessNestedMap(repo)
    IN IF got.raised = "KeyError" THEN [raised |-> "none", result |-> FALSE]
       ELSE [raised |-> "none", result |-> got.val = key]

\* The value has_license returns to public_repos.
HasLicense(repo, key) == HasLicenseCall(repo, key).result

RECURSIVE RepoNames(_, _)
\* public_repos: the names of the repositories, those with the given license
\* when one is given.
RepoNames(repos, license) ==
    IF Len(repos) = 0 THEN <<>>
    ELSE IF license = "none" \/ HasLicense(Head(repos), license)
         THEN <<Head(repos).name>> \o RepoNames(Tail(repos), license)
         ELSE RepoNames(Tail(repos), license)

\* client.org: get_json(ORG_URL.format(org=self._org_name)), memoized.
ClientOrg(c) ==
    /\ orgReads[c] < MaxCalls
    /\ orgReads' = [orgReads EXCEPT ![c] = @ + 1]
    /\ IF OrgMemoized(orgMemo[c])
       THEN UNCHANGED <<requests, orgMemo>>
       ELSE /\ requests' = [requests EXCEPT ![c] = Append(@, OrgUrl(orgName[c]))]
            /\ orgMemo' = [orgMemo EXCEPT
                              ![c] = [set |-> TRUE, val |-> ServedJson(OrgUrl(orgName[c])).org]]
    /\ UNCHANGED <<orgName, reposMemo, reposCalls, lastRepos, licensed>>
    /\ UNCHANGED notClientVars

\* client.public_repos(license): reads repos_payload, which reads
\* _public_repos_url, which reads org["repos_url"].
ClientPublicRepos(c, license) ==
    /\ reposCalls[c] < MaxCalls
    /\ LET orgHit == OrgMemoized(orgMemo[c])
           reposHit == ReposMemoized(reposMemo[c])
           org == IF orgHit THEN orgMemo[c].val ELSE ServedJson(OrgUrl(orgName[c])).org
           orgReq == IF reposHit \/ orgHit THEN <<>> ELSE <<OrgUrl(orgName[c])>>
           reposReq == IF reposHit THEN <<>> ELSE <<org.repos_url>>
           payload == IF reposHit THEN reposMemo[c].val ELSE ServedJson(org.repos_url).repos
       IN /\ requests' = [requests EXCEPT ![c] = @ \o orgReq \o reposReq]
          /\ orgMemo' = IF reposHit \/ orgHit THEN orgMemo
                        ELSE [orgMemo EXCEPT ![c] = [set |-> TRUE, val |-> org]]
          /\ reposMemo' = [reposMemo EXCEPT ![c] = [set |-> TRUE, val |-> payload]]
          /\ lastRepos' = [lastRepos EXCEPT ![c] = RepoNames(payload, license)]
    /\ reposCalls' = [reposCalls EXCEPT ![c] = @ + 1]
    /\ UNCHANGED <<orgName, orgReads, licensed>>
    /\ UNCHANGED notClientVars

\* GithubOrgClient.has_license(repo, license_key), called directly as
\* test_has_license does.
ClientHasLicense(repo, key) ==
    /\ licensed' = << [repo |-> repo, key |-> key, outcome |-> HasLicenseCall(repo, key)] >>
    /\ UNCHANGED <<orgName, orgMemo, reposMemo, requests, orgReads, reposCalls, lastRepos>>
    /\ UNCHANGED notClientVars

NextClient ==
    \/ \E c \in Clients : ClientOrg(c)
    \/ \E c \in Clients, l \in Licenses : ClientPublicRepos(c, l)
    \/ \E repo \in Repos, key \in LicenseKeys : ClientHasLicense(repo, key)

SpecClient == InitClient /\ [][NextClient]_vars

\* C9: a client built for an organization requests the organization URL and
\* the repos_url of the organization payload once each, in that order, and
\* nothing else, however often org is read and public_repos is called.
C9_OneRequestPerUrl ==
    \A c \in Clients :
        /\ IsPrefix(requests[c], <<OrgUrl(orgName[c]), OrgPayload(orgName[c]).repos_url>>)
        /\ (reposCalls[c] >= 1 =>
               requests[c] = <<OrgUrl(orgName[c]), OrgPayload(orgName[c]).repos_url>>)

C9_Witness ==
    /\ orgReads[1] = 2
    /\ orgName[1] = "google"
    /\ orgName[2] = "abc"
    /\ reposCalls[1] = 2
    /\ requests[1] = <<OrgUrl("google"), ReposUrl("google")>>
    /\ lastRepos[1] = << <<"google", "-a">> >>
    /\ requests[2] = <<OrgUrl("abc")>>

(***************************************************************************)
(* chats: the messaging back end (messaging_app, Django-Middleware-0x03).  *)
(* Every request comes from an authenticated user (IsAuthenticated has     *)
(* passed); the JSON body of a request is the argument of its action.      *)
(***************************************************************************)
Apps == {"messaging_app", "Django-Middleware-0x03"}
ChatUsers == {1, 2, 3}
ConvIds == {1, 2}
Bodies == {"hi", "yo"}

\* user_id values a request can carry: 0 stands for "no user_id in the body",
\* 4 for the id of no user.
UserIdInputs == 0..4

\* conversation ids a request can carry, in the URL (conversation_pk) or in
\* the body: 0 stands for none (the flat route, a body without the field),
\* 3 for the id of no conversation.
ConvInputs == 0..3

\* JSON bodies of message requests.  message_body "absent" stands for a body
\* without the field, "" for a blank one; sender 0 for a body without a
\* "sender" entry.
MsgData ==
    {[conversation |-> 0, message_body |-> "absent", sender |-> 0],
     [conversation |-> 1, message_body |-> "hi", sender |-> 0],
     [conversation |-> 2, message_body |-> "hi", sender |-> 0],
     [conversation |-> 3, message_body |-> "hi", sender |-> 0],
     [conversation |-> 1, message_body |-> "", sender |-> 0],
     [conversation |-> 0, message_body |-> "yo", sender |-> 0],
     [conversation |-> 2, message_body |-> "absent", sender |-> 0],
     [conversation |-> 1, message_body |-> "yo", sender |-> 2]}

\* participant_ids of a request body: absent, or a list of ids (duplicates
\* and ids of no user included).
IdInputs ==
    {[given |-> FALSE, ids |-> <<>>]}
    \cup {[given |-> TRUE, ids |-> ids] :
              ids \in {<<>>, <<1>>, <<1, 1>>, <<1, 2>>, <<2, 3>>, <<3, 1>>, <<2, 4>>}}

Range(f) == {f[k] : k \in DOMAIN f}

\* A deleted Message row.
Deleted == [conv |-> 0, sender |-> 0, body |-> ""]

MsgIds == {m \in 1..Len(msgs) : msgs[m] # Deleted}

\* The chats database before any conversation exists.
InitConv ==
    /\ GenIdle
    /\ AsyncIdle
    /\ MemoIdle
    /\ ClientIdle
    /\ CacheIdle
    /\ CtxIdle
    /\ app \in Apps
    /\ profiles = [u \in ChatUsers |-> [exists |-> TRUE, first_name |-> "a"]]
    /\ convs = [c \in ConvIds |-> "none"]
    /\ parts = [c \in ConvIds |-> {}]
    /\ msgs = <<>>
    /\ resp = NoResp

\* Conversation.objects.get(conversation_id=c) finds a row.
Live(c) == c \in ConvIds /\ convs[c] = "live"

\* conversation.participants.filter(user_id=request.user.user_id).exists()
IsParticipant(u, c) == Live(c) /\ u \in parts[c]

\* Mutant of ConvQueryset: Conversation.objects.all(), unfiltered.
MutConvQuerysetAll(u) == {c \in ConvIds : Live(c)}

\* ConversationViewSet.get_queryset: queryset.filter(participants=request.user)
ConvQueryset(u) == {c \in ConvIds : IsParticipant(u, c)}

\* Mutant of MsgQueryset: the participant filter left out.
MutMsgQuerysetAll(u, pk) == {m \in MsgIds : pk = 0 \/ msgs[m].conv = pk}

\* MessageViewSet.get_queryset: filter(conversation__participants=request.user),
\* narrowed to the URL's conversation on the nested route (pk # 0).
MsgQueryset(u, pk) ==
    {m \in MsgIds : IsParticipant(u, msgs[m].conv) /\ (pk = 0 \/ msgs[m].conv = pk)}

\* What a permission check gives: the verdict and the users named in the
\* warnings it logged.
Allowed == [ok |-> TRUE, warned |-> {}]
Refused(who) == [ok |-> FALSE, warned |-> who]

\* Mutant of IsMessageSender: every participant may write.
MutIsMessageSenderAnyone(a, method, u, m) == Allowed

\* IsMessageSender.has_object_permission
IsMessageSender(a, method, u, m) ==
    IF method \in {"GET", "HEAD", "OPTIONS"} THEN Allowed
    ELSE IF a = "messaging_app" \/ method \in {"PUT", "PATCH", "DELETE"}
         THEN IF msgs[m].sender = u THEN Allowed ELSE Refused({u})
         ELSE Refused({})

\* IsConversationParticipant.has_object_permission
IsConversationParticipant(a, u, c) ==
    IF IsParticipant(u, c) THEN Allowed ELSE Refused({u})

\* CanCreateMessage.has_permission; pk is the URL's conversation_pk, 0 on the
\* flat route.
CanCreateMessage(a, method, u, pk) ==
    IF method = "POST" /\ pk # 0
    THEN IF Live(pk)
         THEN IF IsParticipant(u, pk) THEN Allowed ELSE Refused({u})
         ELSE Refused({})
    ELSE Allowed

\* IsOwner.has_object_permission
IsOwner(a, method, u, target) ==
    IF a = "Django-Middleware-0x03" /\ method \in {"GET", "HEAD", "OPTIONS"} THEN Allowed
    ELSE IF a = "messaging_app" \/ method \in {"PUT", "PATCH", "DELETE"}
         THEN IF target = u THEN Allowed ELSE Refused({u})
         ELSE Refused({})

\* ConversationSerializer.validate_participant_ids: at least two entries, all
\* of them ids of users.
ValidParticipantIds(in) ==
    /\ in.given
    /\ Len(in.ids) >= 2
    /\ Range(in.ids) \subseteq ChatUsers

\* The response to a request that got as far as a permission check p.
Response(act, u, c, m, status, shown, denied, p) ==
    [act |-> act, user |-> u, target |-> 0, conv |-> c, msg |-> m, status |-> status,
     shown |-> shown, denied |-> IF p.ok THEN "none" ELSE denied, warned |-> p.warned]

(***************************************************************************)
(* ConversationViewSet.                                                    *)
(***************************************************************************)
\* get_object() of a conversation action: 404 unless the conversation is in
\* the requester's queryset, then the object permission (403 when refused).
GetConversation(u, c) ==
    IF c \notin ConvQueryset(u) THEN [status |-> 404, p |-> Allowed]
    ELSE LET p == IsConversationParticipant(app, u, c)
         IN [status |-> IF p.ok THEN 0 ELSE 403, p |-> p]

\* GET conversations/
ConvList(u) ==
    /\ resp' = Response("conversation.list", u, 0, 0, 200, ConvQueryset(u), "none", Allowed)
    /\ UNCHANGED <<app, profiles, convs, parts, msgs>>
    /\ UNCHANGED notChatVars

\* Mutant of PerformCreate: the instance is saved as the serializer built it.
MutPerformCreateNoAdd(saved, u) == saved

\* perform_create: instance = serializer.save();
\* instance.participants.add(self.request.user)
PerformCreate(saved, u) == saved \cup {u}

\* POST conversations/ with participant_ids
ConvCreate(u, in) ==
    /\ IF ValidParticipantIds(in)
       THEN /\ \E c \in ConvIds : convs[c] = "none"
            /\ LET c == CHOOSE c \in ConvIds :
                            convs[c] = "none" /\ \A d \in ConvIds : convs[d] = "none" => c <= d
               IN /\ convs' = [convs EXCEPT ![c] = "live"]
                  /\ parts' = [parts EXCEPT ![c] = PerformCreate(Range(in.ids), u)]
                  /\ resp' = Response("conversation.create", u, c, 0, 201, {c}, "none", Allowed)
       ELSE /\ resp' = Response("conversation.create", u, 0, 0, 400, {}, "none", Allowed)
            /\ UNCHANGED <<convs, parts>>
    /\ UNCHANGED <<app, profiles, msgs>>
    /\ UNCHANGED notChatVars

\* GET conversations/<c>/
ConvRetrieve(u, c) ==
    /\ LET g == GetConversation(u, c)
       IN resp' = IF g.status # 0
                  THEN Response("conversation.retrieve", u, c, 0, g.status, {},
                                "IsConversationParticipant", g.p)
                  ELSE Response("conversation.retrieve", u, c, 0, 200, {c}, "none", Allowed)
    /\ UNCHANGED <<app, profiles, convs, parts, msgs>>
    /\ UNCHANGED notChatVars

\* PUT (partial = FALSE) and PATCH (partial = TRUE) conversations/<c>/ with
\* any body: ConversationSerializer.update sets the participants when
\* participant_ids is given; PUT requires the field.
ConvUpdate(u, c, partial) ==
    /\ LET g == GetConversation(u, c)
           act == IF partial THEN "conversation.partial_update" ELSE "conversation.update"
       IN IF g.status # 0
          THEN /\ resp' = Response(act, u, c, 0, g.status, {}, "IsConversationParticipant", g.p)
               /\ parts' = parts
          ELSE \E in \in IdInputs :
                  IF IF in.given THEN ValidParticipantIds(in) ELSE partial
                  THEN /\ parts' = IF in.given THEN [parts EXCEPT ![c] = Range(in.ids)]
                                   ELSE parts
                       /\ resp' = Response(act, u, c, 0, 200, {c}, "none", Allowed)
                  ELSE /\ resp' = Response(act, u, c, 0, 400, {}, "none", Allowed)
                       /\ parts' = parts
    /\ UNCHANGED <<app, profiles, convs, msgs>>
    /\ UNCHANGED notChatVars

\* DELETE conversations/<c>/: the row goes, and with it its participant rows
\* and its messages.
ConvDestroy(u, c) ==
    /\ LET g == GetConversation(u, c)
       IN IF g.status # 0
          THEN /\ resp' = Response("conversation.destroy", u, c, 0, g.status, {},
                                   "IsConversationParticipant", g.p)
               /\ UNCHANGED <<convs, parts, msgs>>
          ELSE /\ convs' = [convs EXCEPT ![c] = "gone"]
               /\ parts' = [parts EXCEPT ![c] = {}]
               /\ msgs' = [m \in 1..Len(msgs) |-> IF msgs[m].conv = c THEN Deleted ELSE msgs[m]]
               /\ resp' = Response("conversation.destroy", u, c, 0, 204, {}, "none", Allowed)
    /\ UNCHANGED <<app, profiles>>
    /\ UNCHANGED notChatVars

\* POST conversations/<c>/add_participant/ with user_id t
AddParticipant(u, c, t) ==
    /\ LET g == GetConversation(u, c)
           status == IF g.status # 0 THEN g.status
                     ELSE IF t = 0 THEN 400
                     ELSE IF t \notin ChatUsers THEN 404
                     ELSE IF t \in parts[c] THEN 400
                     ELSE 200
       IN /\ resp' = Response("conversation.add_participant", u, c, 0, status,
                              IF status = 200 THEN {c} ELSE {}, "IsConversationParticipant", g.p)
          /\ parts' = IF status = 200 THEN [parts EXCEPT ![c] = @ \cup {t}] ELSE parts
    /\ UNCHANGED <<app, profiles, convs, msgs>>
    /\ UNCHANGED notChatVars

\* Mutant of RemoveParticipant: the named user is removed, whoever asks.
MutRemoveParticipantAnyone(u, c, t) ==
    /\ LET g == GetConversation(u, c)
           user_id == IF t = 0 THEN u ELSE t
           status == IF g.status # 0 THEN g.status
                     ELSE IF user_id \notin ChatUsers THEN 404
                     ELSE IF user_id \notin parts[c] THEN 400
                     ELSE 200
       IN /\ resp' = Response("conversation.remove_participant", u, c, 0, status, {},
                              "IsConversationParticipant", g.p)
          /\ parts' = IF status = 200 THEN [parts EXCEPT ![c] = @ \ {user_id}] ELSE parts
    /\ UNCHANGED <<app, profiles, convs, msgs>>
    /\ UNCHANGED notChatVars

\* POST conversations/<c>/remove_participant/ with user_id t (the requester
\* when the body has none)
RemoveParticipant(u, c, t) ==
    /\ LET g == GetConversation(u, c)
           user_id == IF t = 0 THEN u ELSE t
           status == IF g.status # 0 THEN g.status
                     ELSE IF user_id \notin ChatUsers THEN 404
                     ELSE IF user_id # u THEN 403
                     ELSE IF user_id \notin parts[c] THEN 400
                     ELSE 200
       IN /\ resp' = Response("conversation.remove_participant", u, c, 0, status, {},
                              "IsConversationParticipant", g.p)
          /\ parts' = IF status = 200 THEN [parts EXCEPT ![c] = @ \ {user_id}] ELSE parts
    /\ UNCHANGED <<app, profiles, convs, msgs>>
    /\ UNCHANGED notChatVars

(***************************************************************************)
(* MessageViewSet.  pk is the conversation_pk of the nested route          *)
(* conversations/<pk>/messages/, 0 on the flat route messages/.            *)
(***************************************************************************)
\* get_object() of a message action: 404 unless the message is in the
\* requester's queryset, then the object permission (403 when refused).
GetMessage(u, pk, m, method) ==
    IF m \notin MsgQueryset(u, pk) THEN [status |-> 404, p |-> Allowed]
    ELSE LET p == IF method = "GET" THEN Allowed ELSE IsMessageSender(app, method, u, m)
         IN [status |-> IF p.ok THEN 0 ELSE 403, p |-> p]

\* GET messages/ and GET conversations/<pk>/messages/
MsgList(u, pk) ==
    /\ resp' = Response("message.list", u, pk, 0, 200, MsgQueryset(u, pk), "none", Allowed)
    /\ UNCHANGED <<app, profiles, convs, parts, msgs>>
    /\ UNCHANGED notChatVars

\* GET messages/<m>/
MsgRetrieve(u, pk, m) ==
    /\ LET g == GetMessage(u, pk, m, "GET")
       IN resp' = IF g.status # 0
                  THEN Response("message.retrieve", u, pk, m, g.status, {}, "none", g.p)
                  ELSE Response("message.retrieve", u, pk, m, 200, {m}, "none", Allowed)
    /\ UNCHANGED <<app, profiles, convs, parts, msgs>>
    /\ UNCHANGED notChatVars

\* sender is read-only in MessageSerializer, and perform_create saves with
\* sender=self.request.user: a "sender" entry of the body is ignored.
SavedSender(u, claimed) == u

\* POST messages/ (flat: the body names the conversation) and
\* POST conversations/<pk>/messages/ (nested: create() puts pk in the data),
\* with any body d.
MsgCreate(u, pk) ==
    /\ LET p == CanCreateMessage(app, "POST", u, pk)
           nested == IF pk = 0 THEN 0
                     ELSE IF ~Live(pk) THEN 404
                     ELSE IF ~IsParticipant(u, pk) THEN 403
                     ELSE 0
       IN IF ~p.ok \/ nested # 0
          THEN /\ msgs' = msgs
               /\ resp' = Response("message.create", u, pk, 0, IF p.ok THEN nested ELSE 403, {},
                                   "CanCreateMessage",
                                   [ok |-> p.ok,
                                    warned |-> p.warned \cup IF p.ok /\ nested = 403 THEN {u} ELSE {}])
          ELSE \E d \in MsgData :
                  LET conversation == IF pk = 0 THEN d.conversation ELSE pk
                  IN IF Live(conversation) /\ d.message_body \in Bodies
                     THEN /\ Len(msgs) < MaxMsgs
                          /\ msgs' = Append(msgs, [conv |-> conversation,
                                                   sender |-> SavedSender(u, d.sender),
                                                   body |-> d.message_body])
                          /\ resp' = Response("message.create", u, pk, Len(msgs) + 1, 201,
                                              {Len(msgs) + 1}, "none", Allowed)
                     ELSE /\ msgs' = msgs
                          /\ resp' = Response("message.create", u, pk, 0, 400, {}, "none", Allowed)
    /\ UNCHANGED <<app, profiles, convs, parts>>
    /\ UNCHANGED notChatVars

\* PUT (partial = FALSE) and PATCH (partial = TRUE) messages/<m>/ with any
\* body d: the serializer takes conversation and message_body; PUT requires
\* both.
MsgUpdate(u, pk, m, partial) ==
    /\ LET act == IF partial THEN "message.partial_update" ELSE "message.update"
           g == GetMessage(u, pk, m, IF partial THEN "PATCH" ELSE "PUT")
       IN IF g.status # 0
          THEN /\ resp' = Response(act, u, pk, m, g.status, {}, "IsMessageSender", g.p)
               /\ msgs' = msgs
          ELSE \E d \in MsgData :
                  IF /\ IF d.conversation = 0 THEN partial ELSE Live(d.conversation)
                     /\ IF d.message_body = "absent" THEN partial
                        ELSE d.message_body \in Bodies
                  THEN /\ msgs' = [msgs EXCEPT ![m] =
                                      [conv |-> IF d.conversation = 0 THEN @.conv
                                                ELSE d.conversation,
                                       sender |-> @.sender,
                                       body |-> IF d.message_body = "absent" THEN @.body
                                                ELSE d.message_body]]
                       /\ resp' = Response(act, u, pk, m, 200, {m}, "none", Allowed)
                  ELSE /\ resp' = Response(act, u, pk, m, 400, {}, "none", Allowed)
                       /\ msgs' = msgs
    /\ UNCHANGED <<app, profiles, convs, parts>>
    /\ UNCHANGED notChatVars

\* DELETE messages/<m>/
MsgDestroy(u, pk, m) ==
    /\ LET g == GetMessage(u, pk, m, "DELETE")
       IN IF g.status # 0
          THEN /\ resp' = Response("message.destroy", u, pk, m, g.status, {}, "IsMessageSender", g.p)
               /\ msgs' = msgs
          ELSE /\ msgs' = [msgs EXCEPT ![m] = Deleted]
               /\ resp' = Response("message.destroy", u, pk, m, 204, {}, "none", Allowed)
    /\ UNCHANGED <<app, profiles, convs, parts>>
    /\ UNCHANGED notChatVars

(***************************************************************************)
(* The specifications of the messaging back end.                           *)
(***************************************************************************)
NextConv ==
    \/ \E u \in ChatUsers : ConvList(u)
    \/ \E u \in ChatUsers, in \in IdInputs : ConvCreate(u, in)
    \/ \E u \in ChatUsers, c \in ConvIds : ConvRetrieve(u, c)
    \/ \E u \in ChatUsers, c \in ConvIds, partial \in BOOLEAN : ConvUpdate(u, c, partial)
    \/ \E u \in ChatUsers, c \in ConvIds : ConvDestroy(u, c)
    \/ \E u \in ChatUsers, c \in ConvIds, t \in UserIdInputs : AddParticipant(u, c, t)
    \/ \E u \in ChatUsers, c \in ConvIds, t \in UserIdInputs : RemoveParticipant(u, c, t)

\* Conversations from an empty database on.
SpecConv == InitConv /\ [][NextConv]_vars

\* Two conversations exist, each with two of the three users.
InitMsg ==
    /\ GenIdle
    /\ AsyncIdle
    /\ MemoIdle
    /\ ClientIdle
    /\ CacheIdle
    /\ CtxIdle
    /\ app \in Apps
    /\ profiles = [u \in ChatUsers |-> [exists |-> TRUE, first_name |-> "a"]]
    /\ convs = [c \in ConvIds |-> "live"]
    /\ parts = [c \in ConvIds |-> IF c = 1 THEN {1, 2} ELSE {2, 3}]
    /\ msgs = <<>>
    /\ resp = NoResp

NextMsg ==
    \/ \E u \in ChatUsers, pk \in ConvInputs : MsgList(u, pk)
    \/ \E u \in ChatUsers, pk \in {0} \cup ConvIds, m \in 1..MaxMsgs : MsgRetrieve(u, pk, m)
    \/ \E u \in ChatUsers, pk \in ConvInputs : MsgCreate(u, pk)
    \/ \E u \in ChatUsers, pk \in {0, 1}, m \in 1..MaxMsgs, partial \in BOOLEAN :
           MsgUpdate(u, pk, m, partial)
    \/ \E u \in ChatUsers, pk \in {0, 1}, m \in 1..MaxMsgs : MsgDestroy(u, pk, m)
    \/ \E u \in ChatUsers : RemoveParticipant(u, 1, 0)

\* Messages in a database that holds two conversations, the first of which
\* users can leave.
SpecMsg == InitMsg /\ [][NextMsg]_vars

(***************************************************************************)
(* UserViewSet.  Requests come from users whose row exists (a deleted      *)
(* user cannot authenticate).                                              *)
(***************************************************************************)
Names == {"a", "b"}

\* The chats database with its users and no conversation.
InitUsers ==
    /\ GenIdle
    /\ AsyncIdle
    /\ MemoIdle
    /\ ClientIdle
    /\ CacheIdle
    /\ CtxIdle
    /\ app \in Apps
    /\ profiles \in [ChatUsers -> [exists : {TRUE}, first_name : Names]]
    /\ convs = [c \in ConvIds |-> "none"]
    /\ parts = [c \in ConvIds |-> {}]
    /\ msgs = <<>>
    /\ resp = NoResp

\* Mutant of UserQueryset: User.objects.all(), unfiltered.
MutUserQuerysetAll(u) == {t \in ChatUsers : profiles[t].exists}

\* UserViewSet.get_queryset: queryset.filter(user_id=request.user.user_id)
UserQueryset(u) == {t \in ChatUsers : profiles[t].exists /\ t = u}

\* get_object() of a user action on users/<t>/: 404 unless t is in the
\* requester's queryset, then the object permission of the writing actions.
GetUser(u, t, method) ==
    IF t \notin UserQueryset(u) THEN [status |-> 404, p |-> Allowed]
    ELSE LET p == IF method = "GET" THEN Allowed ELSE IsOwner(app, method, u, t)
         IN [status |-> IF p.ok THEN 0 ELSE 403, p |-> p]

\* The response of a user action addressed to users/<t>/.
UserResponse(act, u, t, status, shown, p) ==
    [Response(act, u, 0, 0, status, shown, "IsOwner", p) EXCEPT !.target = t]

\* GET users/
UserList(u) ==
    /\ profiles[u].exists
    /\ resp' = UserResponse("user.list", u, 0, 200, UserQueryset(u), Allowed)
    /\ UNCHANGED <<app, profiles, convs, parts, msgs>>
    /\ UNCHANGED notChatVars

\* GET users/<t>/
UserRetrieve(u, t) ==
    /\ profiles[u].exists
    /\ LET g == GetUser(u, t, "GET")
       IN resp' = IF g.status # 0 THEN UserResponse("user.retrieve", u, t, g.status, {}, g.p)
                  ELSE UserResponse("user.retrieve", u, t, 200, {t}, Allowed)
    /\ UNCHANGED <<app, profiles, convs, parts, msgs>>
    /\ UNCHANGED notChatVars

\* PUT (partial = FALSE) and PATCH (partial = TRUE) users/<t>/ with a new
\* first_name
UserUpdate(u, t, partial, name) ==
    /\ profiles[u].exists
    /\ LET act == IF partial THEN "user.partial_update" ELSE "user.update"
           g == GetUser(u, t, IF partial THEN "PATCH" ELSE "PUT")
       IN IF g.status # 0
          THEN /\ resp' = UserResponse(act, u, t, g.status, {}, g.p)
               /\ profiles' = profiles
          ELSE /\ profiles' = [profiles EXCEPT ![t].first_name = name]
               /\ resp' = UserResponse(act, u, t, 200, {t}, Allowed)
    /\ UNCHANGED <<app, convs, parts, msgs>>
    /\ UNCHANGED notChatVars

\* DELETE users/<t>/
UserDestroy(u, t) ==
    /\ profiles[u].exists
    /\ LET g == GetUser(u, t, "DELETE")
       IN IF g.status # 0
          THEN /\ resp' = UserResponse("user.destroy", u, t, g.status, {}, g.p)
               /\ profiles' = profiles
          ELSE /\ profiles' = [profiles EXCEPT ![t] = [exists |-> FALSE, first_name |-> ""]]
               /\ resp' = UserResponse("user.destroy", u, t, 204, {}, Allowed)
    /\ UNCHANGED <<app, convs, parts, msgs>>
    /\ UNCHANGED notChatVars

NextUsers ==
    \/ \E u \in ChatUsers : UserList(u)
    \/ \E u \in ChatUsers, t \in 1..4 : UserRetrieve(u, t)
    \/ \E u \in ChatUsers, t \in 1..4, partial \in BOOLEAN, name \in Names :
           UserUpdate(u, t, partial, name)
    \/ \E u \in ChatUsers, t \in 1..4 : UserDestroy(u, t)

SpecUsers == InitUsers /\ [][NextUsers]_vars

(***************************************************************************)
(* Properties of the messaging back end.                                   *)
(***************************************************************************)
\* C12: users send messages only to conversations they participate in: a
\* message create that succeeded, on the nested or on the flat route, was
\* requested by a participant of the conversation the message is stored in.
C12_OnlyParticipantsSend ==
    (resp.act = "message.create" /\ resp.status = 201) =>
        IsParticipant(resp.user, msgs[resp.msg].conv)

MsgWrites == {"message.update", "message.partial_update", "message.destroy"}

\* C13: only the sender updates or deletes a message: such a request by any
\* other user is refused (403 or 404) and leaves every message as it was;
\* and the sender stored with a created message is the requesting user.
C13_OnlySenderModifies ==
    [][ /\ (/\ resp'.act \in MsgWrites
            /\ resp'.msg \in MsgIds
            /\ msgs[resp'.msg].sender # resp'.user)
           => (resp'.status \in {403, 404} /\ msgs' = msgs)
        /\ (resp'.act = "message.create" /\ resp'.status = 201)
           => msgs'[resp'.msg].sender = resp'.user ]_vars

C13_Witness ==
    /\ resp.act = "message.partial_update"
    /\ resp.status = 403
    /\ resp.denied = "IsMessageSender"
    /\ resp.msg \in MsgIds
    /\ msgs[resp.msg].sender # resp.user
    /\ IsParticipant(resp.user, msgs[resp.msg].conv)

ConvDetailActs ==
    {"conversation.retrieve", "conversation.update", "conversation.partial_update",
     "conversation.destroy", "conversation.add_participant",
     "conversation.remove_participant"}

\* C14: only participants access a conversation: the list a user gets holds
\* only conversations the user participates in, and a retrieve, update,
\* partial_update, destroy, add_participant or remove_participant by a user
\* who is not a participant at that moment is refused (403 or 404) and
\* changes nothing.
C14_OnlyParticipantsAccess ==
    [][ /\ resp'.act = "conversation.list"
           => \A c \in resp'.shown : IsParticipant(resp'.user, c)
        /\ (resp'.act \in ConvDetailActs /\ ~IsParticipant(resp'.user, resp'.conv))
           => (resp'.status \in {403, 404} /\ UNCHANGED <<convs, parts, msgs>>) ]_vars

C14_Witness ==
    /\ resp.act = "conversation.add_participant"
    /\ resp.status = 404
    /\ Live(resp.conv)
    /\ Cardinality(parts[resp.conv]) = 2
    /\ resp.user \notin parts[resp.conv]

\* C15: a user reads only messages of conversations the user participates
\* in at that moment, on the nested route only those of the URL's
\* conversation; the messages of a conversation the user has left, the
\* user's own included, are not returned.
C15_ReadsOwnConversationsOnly ==
    resp.act \in {"message.list", "message.retrieve"} =>
        \A m \in resp.shown :
            /\ m \in MsgIds
            /\ IsParticipant(resp.user, msgs[m].conv)
            /\ (resp.conv # 0 => msgs[m].conv = resp.conv)

C15_Witness ==
    /\ resp.act = "message.list"
    /\ resp.conv = 0
    /\ resp.shown = {}
    /\ resp.user = 1
    /\ 1 \notin parts[1]
    /\ \E m \in MsgIds : msgs[m].sender = 1 /\ msgs[m].conv = 1

\* C16: every existing conversation has at least 2 distinct participants,
\* whatever creates, updates, add_participant and remove_participant
\* requests were served.
C16_AtLeastTwoParticipants ==
    \A c \in ConvIds : Live(c) => Cardinality(parts[c]) >= 2

\* C17: after a successful create the participants of the new conversation
\* are the requesting user together with every user of participant_ids,
\* whether the requester is in the list or not.
C17_CreatorIsParticipant ==
    [][ \A u \in ChatUsers, in \in IdInputs :
            (ConvCreate(u, in) /\ resp'.status = 201)
            => parts'[resp'.conv] = {u} \cup Range(in.ids) ]_vars

C17_Witness ==
    /\ resp.act = "conversation.create"
    /\ resp.status = 201
    /\ resp.user = 1
    /\ parts[resp.conv] = {1, 2, 3}

\* C18: whenever a permission class of chats refuses a request, it has
\* logged a warning that names the requesting user.
C18_DenialsLogged ==
    resp.denied # "none" => resp.user \in resp.warned

UserDetailActs == {"user.retrieve", "user.update", "user.partial_update", "user.destroy"}

\* C19: users see and change only their own profile: the list holds exactly
\* the requester's profile, and a retrieve, update, partial_update or destroy
\* addressed to another user's id is refused (403 or 404), returns nothing
\* and leaves every profile as it was.
C19_OwnProfileOnly ==
    [][ /\ resp'.act = "user.list" => resp'.shown = {resp'.user}
        /\ (resp'.act \in UserDetailActs /\ resp'.target # resp'.user)
           => /\ resp'.status \in {403, 404}
              /\ resp'.shown = {}
              /\ profiles' = profiles ]_vars

C19_Witness ==
    /\ resp.act = "user.destroy"
    /\ resp.user = 1
    /\ resp.target = 2
    /\ resp.status = 404
    /\ profiles[2].exists

C25_NestedCreateRefusals ==
    [][ (resp'.act = "message.create" /\ resp'.conv # 0) =>
            /\ ~Live(resp'.conv) => (resp'.status = 404 /\ msgs' = msgs)
            /\ (Live(resp'.conv) /\ ~IsParticipant(resp'.user, resp'.conv))
               => (resp'.status = 403 /\ msgs' = msgs) ]_vars

RECURSIVE Over25(_)
\* The users of a sequence whose age is over 25, in the order of the sequence.
Over25(us) ==
    IF Len(us) = 0 THEN <<>>
    ELSE IF Head(us).age.cents > 2500 THEN <<Head(us)>> \o Over25(Tail(us))
         ELSE Over25(Tail(us))

\* batch_processing returned by exhaustion: no driver error, no early close.
BatchProcessingExhausted == fn = "batch_processing" /\ bpc = "done" /\ Exhausted

\* C20: batch_processing(batch_size), run to exhaustion over any table with
\* any batch_size >= 1, has yielded exactly the users of the whole table whose
\* age (the int the record carries) is over 25, each once and in table order:
\* a sequence that does not depend on batch_size.  What it has yielded at any
\* earlier moment is a prefix of that sequence.
C20_ProcessesEntireDataset ==
    fn = "batch_processing" =>
        /\ IsPrefix(users, Over25(AllUsers))
        /\ (BatchProcessingExhausted => users = Over25(AllUsers))

C20_Witness ==
    /\ BatchProcessingExhausted
    /\ size = 2
    /\ table = <<4500, 2500, 2575, 4500>>
    /\ Len(out) = 2
    /\ users = <<[user_id |-> 1, age |-> PyInt(45)], [user_id |-> 4, age |-> PyInt(45)]>>

\* The repository dictionary holds a "license" dictionary whose "key" entry
\* equals key.
LicenseKeyIs(repo, key) ==
    \E k \in LicenseKeys : repo.license = LicenseOf(k) /\ k = key

\* C11: has_license(repo, key) returns true exactly when repo["license"]["key"]
\* equals key; when the license entry (or its key) is absent or the key
\* differs it returns false and raises nothing.
C11_HasLicenseIffKeyEquals ==
    \A k \in 1..Len(licensed) :
        /\ licensed[k].outcome.raised = "none"
        /\ licensed[k].outcome.result = LicenseKeyIs(licensed[k].repo, licensed[k].key)

C11_Witness ==
    /\ Len(licensed) = 1
    /\ licensed[1].repo.license = NoLicense
    /\ licensed[1].key = "my_license"
    /\ licensed[1].outcome = [raised |-> "none", result |-> FALSE]

(***************************************************************************)
(* Part 5: python-decorators-0x01/4-cache_query.py.                        *)
(*                                                                         *)
(* A Python value keeps its sequence type: fetchall() returns a list of    *)
(* tuples, the cache stores a (timestamp, list of lists) tuple, and JSON   *)
(* knows lists only.  A bytes value (a BLOB column) has no JSON form.      *)
(***************************************************************************)
CACHE_TTL == 10

Queries == {"SELECT * FROM users", "SELECT * FROM users WHERE id=1"}

Alice == <<[t |-> "int", v |-> "1"], [t |-> "str", v |-> "Alice"]>>
Bob == <<[t |-> "int", v |-> "2"], [t |-> "str", v |-> "Bob"]>>
Photo == <<[t |-> "int", v |-> "1"], [t |-> "bytes", v |-> "00"]>>

\* cursor.fetchall(): a list of tuples.
FetchAll(rows) ==
    [seq |-> "list", items |-> [k \in DOMAIN rows |-> [seq |-> "tuple", items |-> rows[k]]]]

\* What the wrapped function does when invoked: it returns the rows the
\* query selects at that moment, or the query fails (sqlite3.Error).
Outcomes ==
    {[ok |-> TRUE, value |-> FetchAll(rows)] : rows \in {<<Alice>>, <<Alice, Bob>>, <<Photo>>}}
    \cup {[ok |-> FALSE, value |-> NoCall.returned]}

\* serial_result = [list(row) for row in result]
Serial(res) ==
    [seq |-> "list",
     items |-> [k \in DOMAIN res.items |-> [seq |-> "list", items |-> res.items[k].items]]]

NoEntry == [has |-> FALSE, seq |-> "none", timestamp |-> 0, result |-> Serial(FetchAll(<<>>))]

\* query_cache[query] = (now, serial_result)
Entry(now, serial) == [has |-> TRUE, seq |-> "tuple", timestamp |-> now, result |-> serial]

\* json can encode the entry: none of its values is a bytes object.
JsonSerializable(e) ==
    \A k \in DOMAIN e.result.items :
        \A j \in DOMAIN e.result.items[k].items : e.result.items[k].items[j].t # "bytes"

\* The JSON text of a cache: tuples and lists are both written as arrays.
Dump(cache) ==
    [q \in Queries |-> IF cache[q].has THEN [cache[q] EXCEPT !.seq = "list"] ELSE cache[q]]

\* save_cache: open(CACHE_FILE, "w") empties the file and json.dump writes
\* the cache; a value json cannot encode raises TypeError part-way, which
\* leaves text that is not JSON.
SaveCache(cache) ==
    IF \A q \in Queries : cache[q].has => JsonSerializable(cache[q])
    THEN [raised |-> "none", file |-> [state |-> "ok", data |-> Dump(cache)]]
    ELSE [raised |-> "TypeError", file |-> [state |-> "invalid", data |-> <<>>]]

\* Lines 10-14: the cache of a starting process is the content of the file,
\* empty when the file is missing or is not JSON.
LoadCache(file) ==
    IF file.state = "ok" THEN file.data ELSE [q \in Queries |-> NoEntry]

InitCache ==
    /\ GenIdle
    /\ AsyncIdle
    /\ MemoIdle
    /\ ClientIdle
    /\ ChatIdle
    /\ CtxIdle
    /\ clock = 0
    /\ cache_file = [state |-> "missing", data |-> <<>>]
    /\ query_cache = LoadCache(cache_file)
    /\ wcall = NoCall

\* Mutant of CacheHit: no entry is ever fresh.
MutCacheHitNever(query, now) == FALSE

\* if query in query_cache: ... if now - timestamp < CACHE_TTL
CacheHit(query, now) ==
    /\ query_cache[query].has
    /\ now - query_cache[query].timestamp < CACHE_TTL

\* One call fetch_users_with_cache(query=query): the wrapper of cache_query,
\* inside the connection that with_db_connection opens and closes.
CacheCall(query) ==
    /\ LET now == clock
       IN IF CacheHit(query, now)
          THEN /\ wcall' = [query |-> query, at |-> now, hit |-> TRUE, invoked |-> FALSE,
                            raised |-> "none", returned |-> query_cache[query].result]
               /\ UNCHANGED <<query_cache, cache_file>>
          ELSE \E o \in Outcomes :
                  IF ~o.ok
                  THEN /\ wcall' = [query |-> query, at |-> now, hit |-> FALSE,
                                    invoked |-> TRUE, raised |-> "sqlite3.Error",
                                    returned |-> NoCall.returned]
                       /\ UNCHANGED <<query_cache, cache_file>>
                  ELSE LET cache == [query_cache EXCEPT ![query] = Entry(now, Serial(o.value))]
                           saved == SaveCache(cache)
                       IN /\ query_cache' = cache
                          /\ cache_file' = saved.file
                          /\ wcall' = [query |-> query, at |-> now, hit |-> FALSE,
                                       invoked |-> TRUE, raised |-> saved.raised,
                                       returned |-> IF saved.raised = "none" THEN o.value
                                                    ELSE NoCall.returned]
    /\ UNCHANGED clock
    /\ UNCHANGED notCacheVars

\* Time passes between two calls.
Tick(d) ==
    /\ clock + d <= MaxClock
    /\ clock' = clock + d
    /\ UNCHANGED <<query_cache, cache_file, wcall>>
    /\ UNCHANGED notCacheVars

\* The script is run again: the module-level code loads the cache file.
Restart ==
    /\ query_cache' = LoadCache(cache_file)
    /\ wcall' = NoCall
    /\ UNCHANGED <<clock, cache_file>>
    /\ UNCHANGED notCacheVars

NextCache ==
    \/ \E query \in Queries : CacheCall(query)
    \/ \E d \in {1, CACHE_TTL - 1} : Tick(d)
    \/ Restart

SpecCache == InitCache /\ [][NextCache]_vars

\* C21: a call made less than CACHE_TTL seconds after the call that stored
\* the entry of its query returns the cached result, does not invoke the
\* wrapped function and leaves the cache, with the entry's timestamp and the
\* entries of the other queries, and the cache file as they were; and a
\* first call whose function returns stores an entry for its query.
C21_FreshEntryIsUsed ==
    [][ \A q \in Queries :
            /\ (/\ CacheCall(q)
                /\ query_cache[q].has
                /\ clock - query_cache[q].timestamp < CACHE_TTL)
               => /\ ~wcall'.invoked
                  /\ wcall'.returned = query_cache[q].result
                  /\ query_cache' = query_cache
                  /\ cache_file' = cache_file
            /\ (CacheCall(q) /\ ~query_cache[q].has /\ wcall'.raised # "sqlite3.Error")
               => /\ query_cache'[q].has
                  /\ query_cache'[q].timestamp = clock
                  /\ \A o \in Queries \ {q} : query_cache'[o] = query_cache[o] ]_vars

C21_Witness ==
    \E q \in Queries :
        /\ wcall.hit
        /\ wcall.query = q
        /\ wcall.at = clock
        /\ clock - query_cache[q].timestamp = CACHE_TTL - 1
        /\ \E o \in Queries \ {q} :
               query_cache[o].has /\ query_cache[o].timestamp > query_cache[q].timestamp

\* C23: a call made CACHE_TTL seconds or more after the timestamp of its
\* query's entry, like a call for a query without entry, invokes the wrapped
\* function; when the function returns, the entry holds the new result and
\* the time of the call, and the cache file holds the entries of the cache.
C23_ExpiredEntryReplaced ==
    [][ \A q \in Queries :
            (/\ CacheCall(q)
             /\ query_cache[q].has => clock - query_cache[q].timestamp >= CACHE_TTL)
            => /\ wcall'.invoked
               /\ wcall'.raised # "sqlite3.Error"
                  => /\ query_cache'[q].has
                     /\ query_cache'[q].timestamp = clock
                     /\ cache_file'.state = "ok"
                     /\ cache_file'.data = Dump(query_cache') ]_vars

(***************************************************************************)
(* Part 6: python-context-async-perations-0x02, 0-databaseconnection.py    *)
(* and 1-execute.py.  A with statement runs __enter__, the body and        *)
(* __exit__; cmops lists the calls made on the connection and the cursor.  *)
(* commit, rollback and close are taken to succeed.                        *)
(***************************************************************************)
Managers == {"DatabaseConnection", "ExecuteQuery"}

\* Exceptions a body can end with ("none": it finishes normally).
BodyEnds == {"none", "ValueError", "sqlite3.Error"}

InitCtx ==
    /\ GenIdle
    /\ AsyncIdle
    /\ MemoIdle
    /\ ClientIdle
    /\ ChatIdle
    /\ CacheIdle
    /\ cm \in Managers
    /\ cmpc = "with"
    /\ cmconn = "none"
    /\ cmcursor = "none"
    /\ cmops = <<>>
    /\ cmexc = "none"
    /\ cmdb = [committed |-> 0, pending |-> 0]
    /\ cmblocks = 0

\* __enter__.  sqlite3.connect may raise; ExecuteQuery then runs its query
\* (writes rows when w = 1), which may raise too.  An exception of __enter__
\* leaves the with statement before the body, and __exit__ is not called.
CtxEnter(connects, executes, w) ==
    /\ cmpc = "with"
    /\ IF ~connects
       THEN /\ cmpc' = "ended"
            /\ cmexc' = "sqlite3.Error"
            /\ cmops' = cmops \o <<"connect">>
            /\ UNCHANGED <<cmconn, cmcursor, cmdb>>
       ELSE IF cm = "DatabaseConnection"
       THEN /\ cmpc' = "body"
            /\ cmconn' = "open"
            /\ cmops' = cmops \o <<"connect", "body">>
            /\ UNCHANGED <<cmcursor, cmexc, cmdb>>
       ELSE IF ~executes
       THEN /\ cmpc' = "ended"
            /\ cmexc' = "sqlite3.Error"
            /\ cmconn' = "open"
            /\ cmcursor' = "open"
            /\ cmops' = cmops \o <<"connect", "cursor", "execute">>
            /\ UNCHANGED cmdb
       ELSE /\ cmpc' = "body"
            /\ cmconn' = "open"
            /\ cmcursor' = "open"
            /\ cmdb' = [cmdb EXCEPT !.pending = w]
            /\ cmops' = cmops \o <<"connect", "cursor", "execute", "fetchall", "body">>
            /\ UNCHANGED cmexc
    /\ UNCHANGED <<cm, cmblocks>>
    /\ UNCHANGED notCtxVars

\* The body of a DatabaseConnection block executes a writing statement on
\* the connection it was given.
CtxBodyWrite ==
    /\ cmpc = "body"
    /\ cm = "DatabaseConnection"
    /\ cmdb.pending < MaxWrites
    /\ cmdb' = [cmdb EXCEPT !.pending = @ + 1]
    /\ cmops' = Append(cmops, "write")
    /\ UNCHANGED <<cm, cmpc, cmconn, cmcursor, cmexc, cmblocks>>
    /\ UNCHANGED notCtxVars

\* Mutant of Settles: __exit__ commits whatever happened.
MutSettlesAlwaysCommit(exc_type) == "commit"

\* if exc_type: self.conn.rollback() else: self.conn.commit()
Settles(exc_type) == IF exc_type # "none" THEN "rollback" ELSE "commit"

\* return False  # Do not suppress exceptions
Suppresses(exc_type) == FALSE

\* The body ends, normally or with exception exc, and __exit__ runs: the
\* cursor is closed (ExecuteQuery), the transaction is settled, the
\* connection is closed, and the exception goes on unless suppressed.
CtxExit(exc) ==
    /\ cmpc = "body"
    /\ LET settle == Settles(exc)
       IN /\ cmops' = cmops \o (IF exc # "none" THEN <<"raise">> ELSE <<>>)
                            \o (IF cmcursor = "open" THEN <<"cursor.close">> ELSE <<>>)
                            \o <<settle, "close">>
          /\ cmdb' = IF settle = "commit"
                     THEN [committed |-> cmdb.committed + cmdb.pending, pending |-> 0]
                     ELSE [cmdb EXCEPT !.pending = 0]
    /\ cmcursor' = IF cmcursor = "open" THEN "closed" ELSE cmcursor
    /\ cmconn' = "closed"
    /\ cmexc' = IF Suppresses(exc) THEN "none" ELSE exc
    /\ cmpc' = "ended"
    /\ cmblocks' = cmblocks + 1
    /\ UNCHANGED cm
    /\ UNCHANGED notCtxVars

\* Another with statement, with a new manager object.
CtxAgain(manager) ==
    /\ cmpc = "ended"
    /\ cmblocks < MaxBlocks
    /\ cm' = manager
    /\ cmpc' = "with"
    /\ cmconn' = "none"
    /\ cmcursor' = "none"
    /\ cmops' = <<>>
    /\ cmexc' = "none"
    /\ UNCHANGED <<cmdb, cmblocks>>
    /\ UNCHANGED notCtxVars

NextCtx ==
    \/ \E connects \in BOOLEAN, executes \in BOOLEAN, w \in {0, 1} :
           CtxEnter(connects, executes, w)
    \/ CtxBodyWrite
    \/ \E exc \in BodyEnds : CtxExit(exc)
    \/ \E manager \in Managers : CtxAgain(manager)

SpecCtx == InitCtx /\ [][NextCtx]_vars

\* Number of times op was called in the current with statement.
OpCount(op) == Cardinality({k \in DOMAIN cmops : cmops[k] = op})

\* C22: a with-block of DatabaseConnection or ExecuteQuery whose body was
\* entered ends with commit then close when the body finished normally and
\* with rollback then close when it raised, never with both; the connection
\* is closed, and the exception of the body leaves the with statement.
C22_CommitOrRollbackThenClose ==
    (cmpc = "ended" /\ OpCount("body") = 1) =>
        LET n == Len(cmops)
            bodyRaised == OpCount("raise") = 1
        IN /\ cmops[n] = "close"
           /\ cmops[n - 1] = IF bodyRaised THEN "rollback" ELSE "commit"
           /\ OpCount("close") = 1
           /\ OpCount("commit") + OpCount("rollback") = 1
           /\ cmconn = "closed"
           /\ cmdb.pending = 0
           /\ bodyRaised <=> cmexc # "none"

C22_Witness ==
    /\ cmpc = "ended"
    /\ cm = "ExecuteQuery"
    /\ cmexc = "ValueError"
    /\ cmblocks = 2
    /\ cmdb.committed = MaxWrites
    /\ cmops = <<"connect", "cursor", "execute", "fetchall", "body", "raise",
                 "cursor.close", "rollback", "close">>

====
